---- MODULE Spec2Model ----
(***************************************************************************)
(* A model of the ImageRestoration front end:                              *)
(*   - the mask editor (class ImageEditor with undoStack/redoStack),       *)
(*   - the single-page application (class ImageRestorationApp),            *)
(*   - the results editor (class ImageEditor with the five adjustments).   *)
(* Each class is a state machine of its event handlers; one handler is one *)
(* action.  JavaScript arrays that are shared by reference live in `heap`, *)
(* so that aliasing between the live stroke log and a snapshot is a fact   *)
(* of the state and not an assumption.                                     *)
(***************************************************************************)
EXTENDS Integers, Sequences, FiniteSets, TLC

VARIABLES
    \* ---- mask editor (ImageEditor, undo/redo variant) ----
    originalImage,   \* "null" or "img"
    isDrawing,
    brushSize,
    lastX, lastY,
    maskData,        \* reference (heap address) of the live stroke log
    heap,            \* address -> sequence of points
    undoStack,       \* sequence of snapshots [imageData, maskData (address), strokeCount]
    redoStack,
    strokeCount,
    canvasSize,          \* [w, h]: maskCanvas.width / height
    container,       \* [w, h]: canvasContainer.clientWidth - 40, clientHeight - 40
    maskCanvas,      \* the marked sample pixels of the mask surface
    localStorage,    \* <<>> or <<the saved record of 'imageRestorationEditor'>>
    thrown,          \* the last handler ended by an uncaught exception
    scale,           \* the zoom factor, a fraction [n, d] in lowest terms
    offsetX, offsetY,    \* the margins of the canvas, fractions [n, d]
    isPanning,
    lastPanX, lastPanY,
    \* ---- history variables of the mask editor (not program state) ----
    lastEvent,       \* the handler that ran last
    edits,           \* the number of strokes, clears and mid-gesture undos/redos so far
    timeline,        \* the observable states of the current run of edits
    cursor,          \* position of the current state in timeline
    lowest,          \* the lowest position undo has reached since the last edit
    edPayload,       \* the form the last handler sent to /process, if any
    \* ---- results editor (ImageEditor, adjustment variant) ----
    restoredImage,   \* the pixels of <img id="restoredImage"> at its displayed size
    imgComplete,     \* imgElement.complete
    adjustments,     \* [brightness, contrast, temperature, saturation, enhancement]
    originalCanvasImageData,   \* <<>> (null) or <<the captured pixels>>
    imageCanvas,     \* the pixels of <canvas id="imageCanvas">; <<>> when its size is 0
    editPanelHidden, \* editPanel.classList.contains('hidden')
    reThrown,        \* the last handler ended by an uncaught exception
    \* ---- history variables of the results editor (not program state) ----
    reEvent,         \* the handler that ran last
    stages,          \* the stages that the last handler's applyAllAdjustments ran
    adjusted,        \* some slider input has shown pixels other than the original's
    download,        \* what the last handler handed to the browser to save, if anything
    \* ---- single-page application (ImageRestorationApp) ----
    hasWrapper,      \* the page has an element of class canvas-center-container
    appIsDrawing,
    appBrushSize,
    appLastX, appLastY,
    appMaskData,     \* the stroke log (no snapshot ever shares it)
    appCanvasSize,   \* [w, h]: imageCanvas.width / height (= maskCanvas)
    appMaskCanvas,   \* the marked sample pixels of the mask surface
    appStorage,      \* <<>> or <<the saved record of 'imageRestorationApp'>>
    appOriginalImage,  \* <<>> (null) or <<the chosen image, [width, height]>>
    appContainer,    \* [clientWidth, clientHeight] of the element canvasWrapper
    resizeTimeout,   \* "null" or "pending": the timer of the resize handlers
    appSection,      \* the section in use: "upload", "editor", "processing", "results"
    appDisplay,      \* style.display of the four sections; "" while the script has set none
    appLoading,      \* the loading overlay is shown
    appReading,      \* <<>> or <<the file that the FileReader is reading>>
    appPayload,      \* history variable: the form the last handler sent, if any
    appFile,         \* history variable: the file the last handler was given, if any
    appEvent,        \* history variable: the handler that ran last
    \* ---- the theme manager (theme.js) ----
    currentTheme,    \* this.currentTheme
    themeStorage,    \* <<>> or <<the value of the key 'theme' of localStorage>>
    bodyClasses,     \* the theme classes of document.body
    buttonText,      \* <<>> or <<the text the script gave the toggle button>>
    themeTimers,     \* the timers set and not yet run, in the order they were set
    themeStart,      \* history variable: currentTheme after construction
    activations,     \* history variable: the calls of toggleTheme so far
    themeEvent       \* history variable: the handler that ran last

edVars == <<originalImage, isDrawing, brushSize, lastX, lastY, maskData, heap,
            undoStack, redoStack, strokeCount, canvasSize, container, maskCanvas,
            localStorage, thrown, scale, offsetX, offsetY, isPanning, lastPanX,
            lastPanY>>
edHist == <<lastEvent, edits, timeline, cursor, lowest, edPayload>>
reVars == <<restoredImage, imgComplete, adjustments, originalCanvasImageData,
            imageCanvas, editPanelHidden, reThrown, reEvent, stages, adjusted,
            download>>
appVars == <<hasWrapper, appIsDrawing, appBrushSize, appLastX, appLastY, appMaskData,
             appCanvasSize, appMaskCanvas, appStorage, appOriginalImage, appContainer,
             resizeTimeout, appSection, appDisplay, appLoading, appReading, appPayload, appFile,
             appEvent>>
themeVars == <<currentTheme, themeStorage, bodyClasses, buttonText, themeTimers,
               themeStart, activations, themeEvent>>
vars == <<edVars, edHist, reVars, appVars, themeVars>>

(***************************************************************************)
(* Bounds of the model.                                                    *)
(***************************************************************************)
\* longest stroke log
MaxPoints == 2
\* most edits of a session: strokes, clears, and undos/redos in mid-gesture
MaxEdits == 2

\* constructor: this.brushSize = 20
DefaultBrushSize == 20

\* The natural size of the loaded image.
Image == [width |-> 20, height |-> 10]
\* The room the container leaves in the layouts the window takes: one that
\* the image fits (scale 1) and one half as wide (scale 1/2).
WideContainer == [w |-> 40, h |-> 20]
Containers == {WideContainer, [w |-> 10, h |-> 20]}
\* positions of the brush slider that a user sets: its ends
EdBrushInputs == {5, 100}
\* the + and - keys are pressed within this distance of the slider's ends
KeyReach == 10
\* The layout rectangle of the canvas wrapper (getBoundingClientRect).
CenterRect == [left |-> 10, top |-> 5, width |-> 10, height |-> 5]
\* Pointer coordinates of the events, some far outside the rectangle.
PointerEvents == { [clientX |-> -100, clientY |-> -100],
                   [clientX |-> 500, clientY |-> 10] }
\* One sample pixel (its centre) per 10x10 block of the surface.
SampleStep == [size |-> 10, centre |-> 5]

Min(a, b) == IF a < b THEN a ELSE b
Max(a, b) == IF a > b THEN a ELSE b

\* A number of the code that need not be whole is kept as the fraction n / d
\* in lowest terms with d > 0.
RECURSIVE Gcd(_, _)
Gcd(a, b) == IF b = 0 THEN a ELSE Gcd(b, a % b)

Fraction(n, d) ==
    LET g == Gcd(IF n < 0 THEN -n ELSE n, d)
    IN  [n |-> n \div g, d |-> d \div g]

\* Math.max(lo, Math.min(f, hi)) for whole numbers lo and hi
clampFraction(f, lo, hi) ==
    IF f.n > hi * f.d THEN Fraction(hi, 1)
    ELSE IF f.n < lo * f.d THEN Fraction(lo, 1)
    ELSE f

Cells(cv) ==
    { [x |-> SampleStep.size * i + SampleStep.centre,
       y |-> SampleStep.size * j + SampleStep.centre] :
        i \in 0 .. (cv.w \div SampleStep.size) - 1,
        j \in 0 .. (cv.h \div SampleStep.size) - 1 }

(***************************************************************************)
(* Stroke rasterizer.                                                      *)
(***************************************************************************)
Dist2(a, b) == (a.x - b.x) * (a.x - b.x) + (a.y - b.y) * (a.y - b.y)

\* arc(x, y, brushSize / 2, 0, 2*PI); fill(): the pixels within brushSize/2.
InDisc(c, p, d) == 4 * Dist2(c, p) <= d * d

\* moveTo(p); lineTo(q); lineWidth = d; lineCap = 'round'; stroke(): the pixels
\* within d/2 of the segment.  A zero-length segment is pruned and paints
\* nothing.  Beside the segment the distance is |cross| / |pq|; the test
\* (2 cross)^2 <= d^2 |pq|^2 is made within 32-bit integers, whose largest
\* square is that of 46340.
InSegment(c, p, q, d) ==
    LET len2  == Dist2(p, q)
        dot   == (c.x - p.x) * (q.x - p.x) + (c.y - p.y) * (q.y - p.y)
        cross == (c.x - p.x) * (q.y - p.y) - (c.y - p.y) * (q.x - p.x)
        twice == 2 * (IF cross < 0 THEN -cross ELSE cross)
    IN  IF len2 = 0 THEN FALSE
        ELSE IF dot <= 0 THEN InDisc(c, p, d)
        ELSE IF dot >= len2 THEN InDisc(c, q, d)
        ELSE twice <= 46340 /\ twice * twice <= d * d * len2

drawPoint(surface, cv, x, y, d) ==
    surface \cup { c \in Cells(cv) : InDisc(c, [x |-> x, y |-> y], d) }

drawLine(surface, cv, x1, y1, x2, y2, d) ==
    surface \cup { c \in Cells(cv) :
                     InSegment(c, [x |-> x1, y |-> y1], [x |-> x2, y |-> y2], d) }

\* One path through every point of the log, stroked once.
redrawMask(surface, cv, log, d) ==
    IF Len(log) = 0 THEN surface
    ELSE surface \cup { c \in Cells(cv) :
                          \E i \in 1 .. Len(log) - 1 :
                              InSegment(c, log[i], log[i + 1], d) }

(***************************************************************************)
(* Viewport mapper of the mask editor.                                     *)
(***************************************************************************)
getCanvasPosition(e, cv, centerRect) ==
    LET scaleX == cv.w \div centerRect.width
        scaleY == cv.h \div centerRect.height
        x == (e.clientX - centerRect.left) * scaleX
        y == (e.clientY - centerRect.top) * scaleY
    IN  [x |-> Max(0, Min(x, cv.w)), y |-> Max(0, Min(y, cv.h))]

(***************************************************************************)
(* The editor's state as one record, so that a handler is a function.      *)
(***************************************************************************)
Ed == [originalImage |-> originalImage, isDrawing |-> isDrawing,
       brushSize |-> brushSize, lastX |-> lastX, lastY |-> lastY,
       maskData |-> maskData, heap |-> heap, undoStack |-> undoStack,
       redoStack |-> redoStack, strokeCount |-> strokeCount, canvasSize |-> canvasSize,
       container |-> container, maskCanvas |-> maskCanvas,
       localStorage |-> localStorage, thrown |-> FALSE, payload |-> <<>>,
       scale |-> scale, offsetX |-> offsetX, offsetY |-> offsetY,
       isPanning |-> isPanning, lastPanX |-> lastPanX, lastPanY |-> lastPanY]

\* Addresses still referenced; the rest is garbage.
Live(s) == {s.maskData} \cup { s.undoStack[i].maskData : i \in 1 .. Len(s.undoStack) }
                        \cup { s.redoStack[i].maskData : i \in 1 .. Len(s.redoStack) }

\* Every reference of s, in a fixed order of traversal.
Refs(s) == << s.maskData >>
               \o [i \in 1 .. Len(s.undoStack) |-> s.undoStack[i].maskData]
               \o [i \in 1 .. Len(s.redoStack) |-> s.redoStack[i].maskData]

\* Garbage collection: the unreferenced arrays go, and the live ones are
\* numbered in the order of traversal.  An address has no meaning but its
\* identity, which the renumbering keeps.
Collect(s) ==
    LET refs == Refs(s)
        isFirst(i) == \A j \in 1 .. i - 1 : refs[j] # refs[i]
        rank == [i \in 1 .. Len(refs) |-> Cardinality({ j \in 1 .. i : isFirst(j) })]
        to(a) == rank[CHOOSE i \in 1 .. Len(refs) : refs[i] = a]
        from(n) == refs[CHOOSE i \in 1 .. Len(refs) : isFirst(i) /\ rank[i] = n]
        move(stack) == [i \in 1 .. Len(stack) |->
                           [stack[i] EXCEPT !.maskData = to(stack[i].maskData)]]
    IN  [s EXCEPT !.heap = [n \in 1 .. rank[Len(refs)] |-> s.heap[from(n)]],
                  !.maskData = to(s.maskData),
                  !.undoStack = move(s.undoStack),
                  !.redoStack = move(s.redoStack)]

\* The address of a new array: the lowest one not in use.
NewAddr(h) == CHOOSE a \in 1 .. Cardinality(DOMAIN h) + 1 :
                  /\ a \notin DOMAIN h
                  /\ \A b \in 1 .. a - 1 : b \in DOMAIN h

\* h with a new array holding `content` at address a
Store(h, a, content) == [b \in DOMAIN h \cup {a} |-> IF b = a THEN content ELSE h[b]]

getImageData(s) == [w |-> s.canvasSize.w, h |-> s.canvasSize.h, cells |-> s.maskCanvas]

\* putImageData(img, 0, 0): replaces the pixels of img's rectangle, clipped to
\* the canvas.
putImageData(s, img) ==
    (s.maskCanvas \ Cells([w |-> img.w, h |-> img.h]))
        \cup (img.cells \cap Cells(s.canvasSize))

saveToLocalStorage(s) ==
    [s EXCEPT !.localStorage = << [maskData |-> s.heap[s.maskData],
                                   brushSize |-> s.brushSize,
                                   strokeCount |-> s.strokeCount] >>]

\* A snapshot of the current state; the stroke log is copied ([...maskData])
\* into a new array at address a.
Snapshot(s, a) == [imageData |-> getImageData(s), maskData |-> a,
                   strokeCount |-> s.strokeCount]

\* Mutant of saveState: the snapshot keeps the live array instead of a copy.
saveStateNoCopy(s) ==
    [s EXCEPT !.undoStack = Append(s.undoStack, Snapshot(s, s.maskData)),
              !.redoStack = <<>>]

\* Mutant of saveState: the redo stack is kept.
saveStateKeepsRedo(s) ==
    LET a == NewAddr(s.heap)
    IN  [s EXCEPT !.heap = Store(s.heap, a, s.heap[s.maskData]),
                  !.undoStack = Append(s.undoStack, Snapshot(s, a))]

saveState(s) ==
    LET a == NewAddr(s.heap)
    IN  [s EXCEPT !.heap = Store(s.heap, a, s.heap[s.maskData]),
                  !.undoStack = Append(s.undoStack, Snapshot(s, a)),
                  !.redoStack = <<>>]

\* Mutant of startDrawing: the state is saved after the first point is drawn.
startDrawingSavesLate(s, e) ==
    LET pos == getCanvasPosition(e, s.canvasSize, CenterRect)
        s1 == [s EXCEPT !.isDrawing = TRUE, !.lastX = pos.x, !.lastY = pos.y,
                        !.maskCanvas = drawPoint(s.maskCanvas, s.canvasSize, pos.x, pos.y,
                                                 s.brushSize),
                        !.heap = [s.heap EXCEPT ![s.maskData] = Append(@, pos)]]
    IN  [saveState(s1) EXCEPT !.strokeCount = s1.strokeCount + 1]

startDrawing(s, e) ==
    LET pos == getCanvasPosition(e, s.canvasSize, CenterRect)
        s1 == saveState([s EXCEPT !.isDrawing = TRUE, !.lastX = pos.x, !.lastY = pos.y])
    IN  [s1 EXCEPT !.maskCanvas = drawPoint(s1.maskCanvas, s1.canvasSize, pos.x, pos.y,
                                            s1.brushSize),
                   !.heap = [s1.heap EXCEPT ![s1.maskData] = Append(@, pos)],
                   !.strokeCount = s1.strokeCount + 1]

\* Mutant of draw: a move counts as a stroke too.
drawCounting(s, e) ==
    IF ~s.isDrawing THEN s
    ELSE LET pos == getCanvasPosition(e, s.canvasSize, CenterRect)
         IN  [s EXCEPT !.maskCanvas = drawLine(s.maskCanvas, s.canvasSize, s.lastX, s.lastY,
                                               pos.x, pos.y, s.brushSize),
                       !.heap = [s.heap EXCEPT ![s.maskData] = Append(@, pos)],
                       !.lastX = pos.x, !.lastY = pos.y,
                       !.strokeCount = s.strokeCount + 1]

\* Mutant of draw: outside a gesture the pointer's position is still kept.
drawTracksPointer(s, e) ==
    LET pos == getCanvasPosition(e, s.canvasSize, CenterRect)
    IN  IF ~s.isDrawing THEN [s EXCEPT !.lastX = pos.x, !.lastY = pos.y]
        ELSE [s EXCEPT !.maskCanvas = drawLine(s.maskCanvas, s.canvasSize, s.lastX, s.lastY,
                                               pos.x, pos.y, s.brushSize),
                       !.heap = [s.heap EXCEPT ![s.maskData] = Append(@, pos)],
                       !.lastX = pos.x, !.lastY = pos.y]

draw(s, e) ==
    IF ~s.isDrawing THEN s
    ELSE LET pos == getCanvasPosition(e, s.canvasSize, CenterRect)
         IN  [s EXCEPT !.maskCanvas = drawLine(s.maskCanvas, s.canvasSize, s.lastX, s.lastY,
                                               pos.x, pos.y, s.brushSize),
                       !.heap = [s.heap EXCEPT ![s.maskData] = Append(@, pos)],
                       !.lastX = pos.x, !.lastY = pos.y]

\* Mutant of stopDrawing: the gesture ends without the state being saved.
stopDrawingNoSave(s) ==
    IF s.isDrawing THEN [s EXCEPT !.isDrawing = FALSE] ELSE s

stopDrawing(s) ==
    IF s.isDrawing THEN saveToLocalStorage([s EXCEPT !.isDrawing = FALSE]) ELSE s

clearMask(s, confirmed) ==
    IF Len(s.heap[s.maskData]) = 0 THEN s
    ELSE IF ~confirmed THEN s
    ELSE LET s1 == saveState(s)
             a  == NewAddr(s1.heap)
         IN  saveToLocalStorage(
                 [s1 EXCEPT !.maskCanvas = {},
                            !.heap = Store(s1.heap, a, <<>>),
                            !.maskData = a,
                            !.strokeCount = 0])

\* Mutant of undo: no test of the empty stack; pop() gives undefined and
\* reading previousState.imageData throws after the push onto redoStack.
undoUnguarded(s) ==
    LET a == NewAddr(s.heap)
        s1 == [s EXCEPT !.heap = Store(s.heap, a, s.heap[s.maskData]),
                        !.redoStack = Append(s.redoStack, Snapshot(s, a))]
    IN  IF Len(s.undoStack) = 0 THEN [s1 EXCEPT !.thrown = TRUE]
        ELSE LET previousState == s.undoStack[Len(s.undoStack)]
                 s2 == [s1 EXCEPT !.undoStack = SubSeq(s.undoStack, 1, Len(s.undoStack) - 1)]
             IN  saveToLocalStorage(
                     [s2 EXCEPT !.maskCanvas = putImageData(s2, previousState.imageData),
                                !.maskData = previousState.maskData,
                                !.strokeCount = previousState.strokeCount])

\* Mutant of undo: the state pushed onto redoStack is captured after the
\* restore instead of before it.
undoCapturesLate(s) ==
    IF Len(s.undoStack) = 0 THEN s
    ELSE LET previousState == s.undoStack[Len(s.undoStack)]
             s1 == [s EXCEPT !.undoStack = SubSeq(s.undoStack, 1, Len(s.undoStack) - 1),
                             !.maskCanvas = putImageData(s, previousState.imageData),
                             !.maskData = previousState.maskData,
                             !.strokeCount = previousState.strokeCount]
             a == NewAddr(s1.heap)
         IN  saveToLocalStorage(
                 [s1 EXCEPT !.heap = Store(s1.heap, a, s1.heap[s1.maskData]),
                            !.redoStack = Append(s1.redoStack, Snapshot(s1, a))])

undo(s) ==
    IF Len(s.undoStack) = 0 THEN s
    ELSE LET a == NewAddr(s.heap)
             previousState == s.undoStack[Len(s.undoStack)]
             s1 == [s EXCEPT !.heap = Store(s.heap, a, s.heap[s.maskData]),
                             !.redoStack = Append(s.redoStack, Snapshot(s, a)),
                             !.undoStack = SubSeq(s.undoStack, 1, Len(s.undoStack) - 1)]
         IN  saveToLocalStorage(
                 [s1 EXCEPT !.maskCanvas = putImageData(s1, previousState.imageData),
                            !.maskData = previousState.maskData,
                            !.strokeCount = previousState.strokeCount])

redo(s) ==
    IF Len(s.redoStack) = 0 THEN s
    ELSE LET a == NewAddr(s.heap)
             nextState == s.redoStack[Len(s.redoStack)]
             s1 == [s EXCEPT !.heap = Store(s.heap, a, s.heap[s.maskData]),
                             !.undoStack = Append(s.undoStack, Snapshot(s, a)),
                             !.redoStack = SubSeq(s.redoStack, 1, Len(s.redoStack) - 1)]
         IN  saveToLocalStorage(
                 [s1 EXCEPT !.maskCanvas = putImageData(s1, nextState.imageData),
                            !.maskData = nextState.maskData,
                            !.strokeCount = nextState.strokeCount])

\* scale = Math.min(scaleX, scaleY, 1): the image is never scaled up.  The
\* canvases take the scaled size (a canvas's width is a whole number), which
\* clears them; the log is then replayed as it is.
fitImageToCanvas(s) ==
    IF s.originalImage = "null" THEN s
    ELSE LET fits == s.container.w >= Image.width /\ s.container.h >= Image.height
             byWidth == s.container.w * Image.height <= s.container.h * Image.width
             cv == IF fits THEN [w |-> Image.width, h |-> Image.height]
                   ELSE IF byWidth
                        THEN [w |-> s.container.w,
                              h |-> (Image.height * s.container.w) \div Image.width]
                        ELSE [w |-> (Image.width * s.container.h) \div Image.height,
                              h |-> s.container.h]
             sc == IF fits THEN Fraction(1, 1)
                   ELSE IF byWidth THEN Fraction(s.container.w, Image.width)
                        ELSE Fraction(s.container.h, Image.height)
             log == s.heap[s.maskData]
         IN  IF \E i \in 1 .. Len(log) : "x" \notin DOMAIN log[i]
             THEN \* redrawMask reads maskData[i].x of null: a TypeError, before
                  \* stroke() has drawn anything
                  [s EXCEPT !.scale = sc,
                            !.canvasSize = cv,
                            !.offsetX = Fraction(s.container.w * sc.d - Image.width * sc.n,
                                                 2 * sc.d),
                            !.offsetY = Fraction(s.container.h * sc.d - Image.height * sc.n,
                                                 2 * sc.d),
                            !.maskCanvas = {},
                            !.thrown = TRUE]
             ELSE
             [s EXCEPT !.scale = sc,
                       !.canvasSize = cv,
                       !.offsetX = Fraction(s.container.w * sc.d - Image.width * sc.n,
                                            2 * sc.d),
                       !.offsetY = Fraction(s.container.h * sc.d - Image.height * sc.n,
                                            2 * sc.d),
                       !.maskCanvas = redrawMask({}, cv, s.heap[s.maskData], s.brushSize)]

\* Ctrl + wheel: the factor is multiplied by 0.9 or 1.1 and kept within
\* [0.1, 3]; then fitImageToCanvas runs.  Without Ctrl nothing is done.
handleWheel(s, e) ==
    IF ~e.ctrlKey THEN s
    ELSE LET delta == IF e.deltaY > 0 THEN Fraction(9, 10) ELSE Fraction(11, 10)
             raw == Fraction(s.scale.n * delta.n, s.scale.d * delta.d)
             zoomed == IF raw.n > 3 * raw.d THEN Fraction(3, 1)
                       ELSE IF 10 * raw.n < raw.d THEN Fraction(1, 10)
                       ELSE raw
         IN  fitImageToCanvas([s EXCEPT !.scale = zoomed])

startPanning(s, e) ==
    [s EXCEPT !.isPanning = TRUE, !.lastPanX = e.clientX, !.lastPanY = e.clientY]

\* maxOffset = 100
pan(s, e) ==
    IF ~s.isPanning THEN s
    ELSE LET deltaX == e.clientX - s.lastPanX
             deltaY == e.clientY - s.lastPanY
         IN  [s EXCEPT
                !.offsetX = clampFraction(Fraction(s.offsetX.n + deltaX * s.offsetX.d,
                                                   s.offsetX.d), -100, 100),
                !.offsetY = clampFraction(Fraction(s.offsetY.n + deltaY * s.offsetY.d,
                                                   s.offsetY.d), -100, 100),
                !.lastPanX = e.clientX, !.lastPanY = e.clientY]

stopPanning(s) == [s EXCEPT !.isPanning = FALSE]

\* this.brushSize = parseInt(e.target.value); saveToLocalStorage()
brushInput(s, value) == saveToLocalStorage([s EXCEPT !.brushSize = value])

\* '+' and '=': the slider goes up by 5, to 100 at most, and brushSize follows;
\* nothing is saved.  (The slider's value is brushSize: every assignment of
\* one assigns the other.)
keyPlus(s) == [s EXCEPT !.brushSize = Min(100, s.brushSize + 5)]

\* '-' and '_'
keyMinus(s) == [s EXCEPT !.brushSize = Max(5, s.brushSize - 5)]

\* The form sent to /process: mask_data when the log is not empty, and the
\* parameters.
processImage(s) ==
    IF s.originalImage = "null" THEN s
    ELSE [s EXCEPT
            !.payload = << [mask_data |->
                                IF Len(s.heap[s.maskData]) > 0
                                THEN << [coordinates |-> s.heap[s.maskData],
                                         brush_size |-> s.brushSize,
                                         display_width |-> s.canvasSize.w,
                                         display_height |-> s.canvasSize.h] >>
                                ELSE <<>>,
                            parameters |-> [gamma |-> 1, inpainting_method |-> "hybrid",
                                            inpainting_radius |-> 3,
                                            brush_size |-> 20]] >>]

(***************************************************************************)
(* What an observer of the editor can see: every array read through its    *)
(* reference.                                                              *)
(***************************************************************************)
Entry(h, snapshot) ==
    [imageData |-> snapshot.imageData, maskData |-> h[snapshot.maskData],
     strokeCount |-> snapshot.strokeCount]

Deref(s, stack) == [i \in 1 .. Len(stack) |-> Entry(s.heap, stack[i])]

View(s) == [maskCanvas |-> s.maskCanvas, maskData |-> s.heap[s.maskData],
            strokeCount |-> s.strokeCount, undoStack |-> Deref(s, s.undoStack),
            redoStack |-> Deref(s, s.redoStack), localStorage |-> s.localStorage,
            isDrawing |-> s.isDrawing, lastX |-> s.lastX, lastY |-> s.lastY,
            canvasSize |-> s.canvasSize, brushSize |-> s.brushSize]

\* The mask state that history is about.
Mask(s) == [maskCanvas |-> s.maskCanvas, maskData |-> s.heap[s.maskData],
            strokeCount |-> s.strokeCount]

(***************************************************************************)
(* Initial state: the page is ready.  The constructor has run              *)
(* (loadFromLocalStorage has read the stored entry) and the image has      *)
(* loaded (img.onload has fitted it and replayed the stored log).          *)
(***************************************************************************)
StoredEntries ==
    { <<>>,
      << [maskData |-> << [x |-> 20, y |-> 0] >>, brushSize |-> DefaultBrushSize,
          strokeCount |-> 1] >> }

\* Stored items that no saveToLocalStorage wrote: a text that JSON.parse
\* rejects, and a record whose maskData is [null].
CorruptEntries ==
    { << [text |-> "{"] >>,
      << [maskData |-> << [null |-> TRUE] >>, brushSize |-> DefaultBrushSize,
          strokeCount |-> 1] >> }

\* JSON.parse throws on a text that is not JSON; the catch logs the error and
\* the constructor's values stay.
loadFromLocalStorage(saved) ==
    IF saved = <<>>
    THEN [maskData |-> <<>>, brushSize |-> DefaultBrushSize, strokeCount |-> 0]
    ELSE IF "maskData" \notin DOMAIN saved[1]
    THEN [maskData |-> <<>>, brushSize |-> DefaultBrushSize, strokeCount |-> 0]
    ELSE [maskData |-> saved[1].maskData, brushSize |-> saved[1].brushSize,
          strokeCount |-> saved[1].strokeCount]

\* changeImage: once confirmed the page is left for the upload page, and the
\* editor's page is loaded again for the new image: a new ImageEditor over the
\* same local storage, whose constructor ends with loadFromLocalStorage and
\* whose image then loads (img.onload: fitImageToCanvas).
changeImage(s, confirmed) ==
    IF ~confirmed THEN s
    ELSE LET data == loadFromLocalStorage(s.localStorage)
         IN  fitImageToCanvas(
                 [originalImage |-> "img", isDrawing |-> FALSE,
                  brushSize |-> data.brushSize, lastX |-> 0, lastY |-> 0,
                  maskData |-> 1, heap |-> << data.maskData >>, undoStack |-> <<>>,
                  redoStack |-> <<>>, strokeCount |-> data.strokeCount,
                  canvasSize |-> [w |-> 0, h |-> 0], container |-> s.container,
                  maskCanvas |-> {}, localStorage |-> s.localStorage,
                  thrown |-> FALSE, payload |-> <<>>,
                  scale |-> Fraction(1, 1), offsetX |-> Fraction(0, 1),
                  offsetY |-> Fraction(0, 1), isPanning |-> FALSE, lastPanX |-> 0,
                  lastPanY |-> 0])

\* img.onload: this.originalImage = img; this.fitImageToCanvas()
Fitted(data) ==
    fitImageToCanvas([originalImage |-> "img", canvasSize |-> [w |-> 0, h |-> 0],
                      container |-> WideContainer, maskCanvas |-> {}, maskData |-> 1,
                      heap |-> << data.maskData >>, brushSize |-> data.brushSize,
                      thrown |-> FALSE, scale |-> Fraction(1, 1), offsetX |-> Fraction(0, 1),
                      offsetY |-> Fraction(0, 1)])

EdInitWith(saved) ==
        LET data == loadFromLocalStorage(saved)
        IN  /\ originalImage = "img"
            /\ isDrawing = FALSE
            /\ brushSize = data.brushSize
            /\ lastX = 0
            /\ lastY = 0
            /\ maskData = 1
            /\ heap = << data.maskData >>
            /\ undoStack = <<>>
            /\ redoStack = <<>>
            /\ strokeCount = data.strokeCount
            /\ canvasSize = Fitted(data).canvasSize
            /\ container = WideContainer
            /\ maskCanvas = Fitted(data).maskCanvas
            /\ localStorage = saved
            /\ thrown = Fitted(data).thrown
            /\ scale = Fitted(data).scale
            /\ offsetX = Fitted(data).offsetX
            /\ offsetY = Fitted(data).offsetY
            /\ isPanning = FALSE
            /\ lastPanX = 0
            /\ lastPanY = 0
            /\ lastEvent = "constructor"
            /\ edits = 0
            /\ timeline = << [maskCanvas |-> Fitted(data).maskCanvas,
                              maskData |-> data.maskData,
                              strokeCount |-> data.strokeCount] >>
            /\ cursor = 1
            /\ lowest = 1
            /\ edPayload = <<>>

EdInit == \E saved \in StoredEntries : EdInitWith(saved)

(***************************************************************************)
(* One handler run: the program state becomes s (garbage collected), and   *)
(* the history variables record the event.                                 *)
(***************************************************************************)
EdSet(s) ==
    \E c \in {Collect(s)} :
        /\ originalImage' = c.originalImage
        /\ isDrawing' = c.isDrawing
        /\ brushSize' = c.brushSize
        /\ lastX' = c.lastX
        /\ lastY' = c.lastY
        /\ maskData' = c.maskData
        /\ heap' = c.heap
        /\ undoStack' = c.undoStack
        /\ redoStack' = c.redoStack
        /\ strokeCount' = c.strokeCount
        /\ canvasSize' = c.canvasSize
        /\ container' = c.container
        /\ maskCanvas' = c.maskCanvas
        /\ localStorage' = c.localStorage
        /\ thrown' = c.thrown
        /\ scale' = c.scale
        /\ offsetX' = c.offsetX
        /\ offsetY' = c.offsetY
        /\ isPanning' = c.isPanning
        /\ lastPanX' = c.lastPanX
        /\ lastPanY' = c.lastPanY
        /\ edPayload' = c.payload
        /\ UNCHANGED <<reVars, appVars, themeVars>>

Record(name) == lastEvent' = name

\* a forward edit: what could be redone is dropped, the new state is appended
Forward(s) == /\ timeline' = Append(SubSeq(timeline, 1, cursor), Mask(s))
              /\ cursor' = cursor + 1
              /\ lowest' = cursor + 1
              /\ edits' = edits + 1
\* the gesture in progress goes on: the current entry follows the surface
Extend(s) == /\ timeline' = [timeline EXCEPT ![cursor] = Mask(s)]
             /\ UNCHANGED <<cursor, lowest, edits>>
\* history was not used as a run of edits followed by undos and redos
Restart(s) == /\ timeline' = << Mask(s) >>
              /\ cursor' = 1
              /\ lowest' = 1
              /\ UNCHANGED edits
\* history was used in the middle of a gesture
Interrupt(s) == /\ timeline' = << Mask(s) >>
                /\ cursor' = 1
                /\ lowest' = 1
                /\ edits' = edits + 1

MouseDown(e) ==
    /\ Len(heap[maskData]) < MaxPoints
    /\ edits < MaxEdits
    /\ \E s \in {startDrawing(Ed, e)} :
           EdSet(s) /\ Record("startDrawing") /\ Forward(s)

MouseMove(e) ==
    /\ isDrawing => Len(heap[maskData]) < MaxPoints
    /\ \E s \in {draw(Ed, e)} :
           EdSet(s) /\ Record("draw") /\ Extend(s)

\* mouseup, mouseleave, touchend
MouseUp ==
    \E s \in {stopDrawing(Ed)} :
        EdSet(s) /\ Record("stopDrawing") /\ UNCHANGED <<timeline, cursor, lowest, edits>>

ClearClick(confirmed) ==
    /\ edits < MaxEdits
    /\ \E s \in {clearMask(Ed, confirmed)} :
           /\ EdSet(s)
           /\ Record(IF confirmed THEN "clearMask" ELSE "clearMaskCancelled")
           /\ IF confirmed /\ Len(heap[maskData]) > 0
              THEN Forward(s)
              ELSE UNCHANGED <<timeline, cursor, lowest, edits>>

\* the Undo button, Ctrl+Z
UndoKey ==
    /\ (isDrawing /\ Len(undoStack) > 0) => edits < MaxEdits
    /\ \E s \in {undo(Ed)} :
           /\ EdSet(s)
           /\ Record("undo")
           /\ IF Len(undoStack) = 0 THEN UNCHANGED <<timeline, cursor, lowest, edits>>
              ELSE IF isDrawing THEN Interrupt(s)
              ELSE IF cursor > 1
                   THEN /\ cursor' = cursor - 1
                        /\ lowest' = Min(lowest, cursor - 1)
                        /\ UNCHANGED <<timeline, edits>>
                   ELSE Restart(s)

\* Ctrl+Y, Ctrl+Shift+Z
RedoKey ==
    /\ (isDrawing /\ Len(redoStack) > 0) => edits < MaxEdits
    /\ \E s \in {redo(Ed)} :
           /\ EdSet(s)
           /\ Record("redo")
           /\ IF Len(redoStack) = 0 THEN UNCHANGED <<timeline, cursor, lowest, edits>>
              ELSE IF isDrawing THEN Interrupt(s)
              ELSE IF cursor < Len(timeline)
                   THEN cursor' = cursor + 1 /\ UNCHANGED <<timeline, lowest, edits>>
                   ELSE Restart(s)

\* the window's resize event; the container may or may not change its size
Resize(c) ==
    \E s \in {fitImageToCanvas([Ed EXCEPT !.container = c])} :
        EdSet(s) /\ Record("resize") /\ Restart(s)

BrushInput(value) ==
    \E s \in {brushInput(Ed, value)} :
        EdSet(s) /\ Record("brushInput") /\ UNCHANGED <<timeline, cursor, lowest, edits>>

KeyPlus ==
    /\ brushSize <= 5 + KeyReach \/ brushSize >= 100 - KeyReach
    /\ \E s \in {keyPlus(Ed)} :
           EdSet(s) /\ Record("keyPlus") /\ UNCHANGED <<timeline, cursor, lowest, edits>>

KeyMinus ==
    /\ brushSize <= 5 + KeyReach \/ brushSize >= 100 - KeyReach
    /\ \E s \in {keyMinus(Ed)} :
           EdSet(s) /\ Record("keyMinus") /\ UNCHANGED <<timeline, cursor, lowest, edits>>

ProcessClick ==
    \E s \in {processImage(Ed)} :
        EdSet(s) /\ Record("processImage") /\ UNCHANGED <<timeline, cursor, lowest, edits>>

\* the Change Image button, and what follows a confirmation
ChangeImageClick(confirmed) ==
    \E s \in {changeImage(Ed, confirmed)} :
        /\ EdSet(s)
        /\ Record(IF confirmed THEN "changeImage" ELSE "changeImageCancelled")
        /\ IF confirmed THEN Restart(s)
           ELSE UNCHANGED <<timeline, cursor, lowest, edits>>

Next ==
    \/ \E e \in PointerEvents : MouseDown(e)
    \/ \E e \in PointerEvents : MouseMove(e)
    \/ MouseUp
    \/ \E confirmed \in BOOLEAN : ClearClick(confirmed)
    \/ UndoKey
    \/ RedoKey

\* The editor while its window changes size, its brush is set, its mask is
\* sent and its image is changed.
NextView ==
    \/ \E e \in PointerEvents : MouseDown(e)
    \/ \E e \in PointerEvents : MouseMove(e)
    \/ MouseUp
    \/ \E c \in Containers : Resize(c)
    \/ \E value \in EdBrushInputs : BrushInput(value)
    \/ KeyPlus
    \/ KeyMinus
    \/ ProcessClick
    \/ \E confirmed \in BOOLEAN : ChangeImageClick(confirmed)

\* The room the container leaves while the image is zoomed and panned: one
\* the image fits, one much wider than the image, one less than a tenth of
\* the image's width.
ZoomContainers == {WideContainer, [w |-> 240, h |-> 20], [w |-> 1, h |-> 20]}

\* wheel events over the canvas: Ctrl held and the wheel turned either way, or
\* Ctrl not held
WheelEvents == { [ctrlKey |-> TRUE, deltaY |-> 100], [ctrlKey |-> TRUE, deltaY |-> -100],
                 [ctrlKey |-> FALSE, deltaY |-> 100] }

ZoomWheel(e) ==
    \E s \in {handleWheel(Ed, e)} :
        /\ EdSet(s)
        /\ Record("handleWheel")
        /\ IF e.ctrlKey THEN Restart(s) ELSE UNCHANGED <<timeline, cursor, lowest, edits>>

\* mousedown on the canvas with the middle or the right button: both of the
\* canvas's mousedown listeners run, startDrawing and then startPanning
PanMouseDown(e) ==
    /\ Len(heap[maskData]) < MaxPoints
    /\ edits < MaxEdits
    /\ \E s \in {startPanning(startDrawing(Ed, e), e)} :
           EdSet(s) /\ Record("startPanning") /\ Forward(s)

\* mousemove over the canvas: the canvas's listener (draw), then the
\* document's (pan, while panning)
PanMouseMove(e) ==
    /\ isDrawing => Len(heap[maskData]) < MaxPoints
    /\ \E s \in {pan(draw(Ed, e), e)} :
           EdSet(s) /\ Record("pan") /\ Extend(s)

\* mouseup over the canvas: stopDrawing, then the document's listener
\* (stopPanning, while panning)
PanMouseUp ==
    \E s \in {stopPanning(stopDrawing(Ed))} :
        EdSet(s) /\ Record("stopPanning") /\ UNCHANGED <<timeline, cursor, lowest, edits>>

\* The editor while its image is zoomed and panned and its window resized.
NextZoom ==
    \/ \E e \in WheelEvents : ZoomWheel(e)
    \/ \E e \in PointerEvents : PanMouseDown(e)
    \/ \E e \in PointerEvents : PanMouseMove(e)
    \/ PanMouseUp
    \/ \E c \in ZoomContainers : Resize(c)

\* The editor over whatever local storage holds, while the mask is drawn, the
\* window resized and the page loaded again.
NextRestore ==
    \/ \E e \in PointerEvents : MouseDown(e)
    \/ \E e \in PointerEvents : MouseMove(e)
    \/ MouseUp
    \/ \E c \in Containers : Resize(c)
    \/ \E confirmed \in BOOLEAN : ChangeImageClick(confirmed)

(***************************************************************************)
(* The results editor: the pixel adjustment pipeline.                      *)
(*                                                                         *)
(* A pixel is <<R, G, B, A>>; a buffer (ImageData.data) is a sequence of   *)
(* pixels.  The code computes in doubles and stores into a                 *)
(* Uint8ClampedArray; the model computes the same values as exact          *)
(* fractions [n, d] and rounds as the store does.                          *)
(***************************************************************************)
Rat(n, d) == [n |-> n, d |-> d]

\* The values the sliders are moved to.  For these values the double
\* arithmetic of the code and the exact arithmetic of the model store the
\* same bytes for every pixel of RestoredImages.
SliderValues ==
    [brightness  |-> {0, 25, 100},
     contrast    |-> {-100, 0, 50, 100},
     temperature |-> {-100, 0, 75},
     saturation  |-> {-100, 0, 50},
     enhancement |-> {-100, 0, 25}]

sliderIds == <<"brightness", "contrast", "temperature", "saturation", "enhancement">>

\* The images shown by <img id="restoredImage">, two opaque pixels each.
RestoredImages ==
    { << <<200, 150, 100, 255>>, <<0, 128, 255, 255>> >>,
      << <<255, 255, 255, 255>>, <<10, 20, 30, 255>> >>,
      << <<128, 64, 32, 255>>, <<0, 0, 0, 255>> >> }

\* constructor: this.adjustments = {brightness: 0, ...}
NeutralAdjustments ==
    [brightness |-> 0, contrast |-> 0, temperature |-> 0, saturation |-> 0,
     enhancement |-> 0]

\* Mutant of clamp: no upper limit.
clampNoMax(value, min, max) ==
    IF value.n < min * value.d THEN Rat(min, 1) ELSE value

\* Math.max(min, Math.min(max, value))
clamp(value, min, max) ==
    LET m == IF max * value.d < value.n THEN Rat(max, 1) ELSE value
    IN  IF m.n < min * m.d THEN Rat(min, 1) ELSE m

\* data[i] = value: the conversion of a Uint8ClampedArray store, which clamps
\* to [0, 255] and rounds to the nearest integer, a tie to the even one.
ToUint8Clamped(v) ==
    LET q == v.n \div v.d
        r == v.n % v.d
    IN  IF v.n <= 0 THEN 0
        ELSE IF v.n >= 255 * v.d THEN 255
        ELSE IF 2 * r < v.d THEN q
        ELSE IF 2 * r > v.d THEN q + 1
        ELSE IF q % 2 = 0 THEN q ELSE q + 1

\* Mutant of WriteStage: the loop stores 255 into the alpha byte as well.
WriteStageOpaque(name, data, values) ==
    LET written == [p \in 1 .. Len(data) |->
                       [c \in 1 .. 3 |-> clamp(values[p][c], 0, 255)]]
    IN  [stage |-> name, skipped |-> FALSE, input |-> data, written |-> written,
         output |-> [p \in 1 .. Len(data) |->
                       [c \in 1 .. 4 |-> IF c = 4 THEN 255
                                         ELSE ToUint8Clamped(written[p][c])]]]

\* One run of a stage's loop: each colour channel c of pixel p is written
\* with clamp(values[p][c], 0, 255); the alpha byte is not written.
WriteStage(name, data, values) ==
    LET written == [p \in 1 .. Len(data) |->
                       [c \in 1 .. 3 |-> clamp(values[p][c], 0, 255)]]
    IN  [stage |-> name, skipped |-> FALSE, input |-> data, written |-> written,
         output |-> [p \in 1 .. Len(data) |->
                       [c \in 1 .. 4 |-> IF c = 4 THEN data[p][4]
                                         ELSE ToUint8Clamped(written[p][c])]]]

\* The stage returned before its loop.
SkipStage(name, data) ==
    [stage |-> name, skipped |-> TRUE, input |-> data, written |-> <<>>,
     output |-> data]

\* factor = brightness * 2.55; data[i] + factor
applyBrightness(data, adj) ==
    LET brightness == adj.brightness
        value(px, c) == Rat(100 * px[c] + 255 * brightness, 100)
    IN  IF brightness = 0 THEN SkipStage("brightness", data)
        ELSE WriteStage("brightness", data,
                        [p \in 1 .. Len(data) |-> [c \in 1 .. 3 |-> value(data[p], c)]])

\* Mutant of applyContrast: the factor is (contrast + 255) / 255.
applyContrastLinear(data, adj) ==
    LET contrast == adj.contrast
        value(px, c) == Rat((contrast + 255) * (px[c] - 128) + 128 * 255, 255)
    IN  IF contrast = 0 THEN SkipStage("contrast", data)
        ELSE WriteStage("contrast", data,
                        [p \in 1 .. Len(data) |-> [c \in 1 .. 3 |-> value(data[p], c)]])

\* factor = (259 * (contrast + 255)) / (255 * (259 - contrast));
\* factor * (data[i] - 128) + 128
applyContrast(data, adj) ==
    LET contrast == adj.contrast
        value(px, c) == Rat(259 * (contrast + 255) * (px[c] - 128)
                                + 128 * 255 * (259 - contrast),
                            255 * (259 - contrast))
    IN  IF contrast = 0 THEN SkipStage("contrast", data)
        ELSE WriteStage("contrast", data,
                        [p \in 1 .. Len(data) |-> [c \in 1 .. 3 |-> value(data[p], c)]])

\* m * 1.275 as the double product.  100 * 1.275 is 127.49999999999998579, just
\* below 127.5, so a tie of the exact difference is none in the code: the
\* difference lies above the half and is rounded up.  A millionth below is
\* enough to break the tie the same way.
Times1275(m) == Rat(1275 * m * 1000 - (IF m = 100 THEN 1 ELSE 0), 1000000)

\* Mutant of applyTemperature: green is warmed and cooled as red is.
applyTemperatureTintsGreen(data, adj) ==
    LET temp == adj.temperature
        coolFactor == IF temp < 0 THEN -temp ELSE temp
        plus(ch, m) == Rat(100 * ch + 255 * m, 100)
        minus(ch, m) == Rat(ch * Times1275(m).d - Times1275(m).n, Times1275(m).d)
        value(px, c) ==
            IF temp > 0
            THEN (IF c = 3 THEN minus(px[3], temp) ELSE plus(px[c], temp))
            ELSE (IF c = 3 THEN plus(px[3], coolFactor) ELSE minus(px[c], coolFactor))
    IN  IF temp = 0 THEN SkipStage("temperature", data)
        ELSE WriteStage("temperature", data,
                        [p \in 1 .. Len(data) |-> [c \in 1 .. 3 |-> value(data[p], c)]])

applyTemperature(data, adj) ==
    LET temp == adj.temperature
        coolFactor == IF temp < 0 THEN -temp ELSE temp
        plus(ch, m) == Rat(100 * ch + 255 * m, 100)
        minus(ch, m) == Rat(ch * Times1275(m).d - Times1275(m).n, Times1275(m).d)
        value(px, c) ==
            IF c = 2 THEN Rat(px[2], 1)
            ELSE IF temp > 0
                 THEN (IF c = 1 THEN plus(px[1], temp) ELSE minus(px[3], temp))
                 ELSE (IF c = 1 THEN minus(px[1], coolFactor)
                       ELSE plus(px[3], coolFactor))
    IN  IF temp = 0 THEN SkipStage("temperature", data)
        ELSE WriteStage("temperature", data,
                        [p \in 1 .. Len(data) |-> [c \in 1 .. 3 |-> value(data[p], c)]])

\* Mutant of applySaturation: the channel's distance from gray is scaled by
\* saturation instead of (1 + saturation), for every value of the slider.
applySaturationScaled(data, adj) ==
    LET value(px, c) ==
            LET gray == 299 * px[1] + 587 * px[2] + 114 * px[3]
            IN  Rat(100 * gray + (1000 * px[c] - gray) * adj.saturation, 100000)
    IN  WriteStage("saturation", data,
                        [p \in 1 .. Len(data) |-> [c \in 1 .. 3 |-> value(data[p], c)]])

\* saturation = adjustments.saturation / 100; skipped when |saturation| < 0.01;
\* gray = 0.299 r + 0.587 g + 0.114 b; gray + (c - gray) * (1 + saturation).
\* `gray` below is a thousand times the code's.
applySaturation(data, adj) ==
    LET saturation == adj.saturation
        magnitude == IF saturation < 0 THEN -saturation ELSE saturation
        value(px, c) ==
            LET gray == 299 * px[1] + 587 * px[2] + 114 * px[3]
            IN  Rat(100 * gray + (1000 * px[c] - gray) * (100 + saturation), 100000)
    IN  IF magnitude < 1 THEN SkipStage("saturation", data)
        ELSE WriteStage("saturation", data,
                        [p \in 1 .. Len(data) |-> [c \in 1 .. 3 |-> value(data[p], c)]])

\* factor = 1 + (enhancement * 0.01); 128 + (data[i] - 128) * factor
applyEnhancement(data, adj) ==
    LET enhancement == adj.enhancement
        value(px, c) == Rat(12800 + (px[c] - 128) * (100 + enhancement), 100)
    IN  IF enhancement = 0 THEN SkipStage("enhancement", data)
        ELSE WriteStage("enhancement", data,
                        [p \in 1 .. Len(data) |-> [c \in 1 .. 3 |-> value(data[p], c)]])

\* Mutant of applyAllAdjustments: contrast runs before brightness.
applyAllAdjustmentsContrastFirst(data, adj) ==
    LET s1 == applyContrast(data, adj)
        s2 == applyBrightness(s1.output, adj)
        s3 == applyTemperature(s2.output, adj)
        s4 == applySaturation(s3.output, adj)
        s5 == applyEnhancement(s4.output, adj)
    IN  <<s1, s2, s3, s4, s5>>

\* The five calls in the order of the code, each on the buffer the one before
\* it left; the result is the record of the five stages, the last of which
\* holds the final buffer.
applyAllAdjustments(data, adj) ==
    LET s1 == applyBrightness(data, adj)
        s2 == applyContrast(s1.output, adj)
        s3 == applyTemperature(s2.output, adj)
        s4 == applySaturation(s3.output, adj)
        s5 == applyEnhancement(s4.output, adj)
    IN  <<s1, s2, s3, s4, s5>>

\* ctx.putImageData(imageData, 0, 0) on a canvas of imageData's size.  The
\* canvas keeps an opaque pixel as it is; a pixel of alpha 0 has no colour.
ctxPutImageData(data) ==
    [p \in 1 .. Len(data) |-> IF data[p][4] = 0 THEN <<0, 0, 0, 0>> ELSE data[p]]

\* ctx.getImageData(0, 0, canvas.width, canvas.height): a copy of the pixels
ctxGetImageData(pixels) == pixels

\* The canvas element before its size is ever set: one transparent pixel
\* stands for its 300x150 transparent pixels.
BlankCanvas == << <<0, 0, 0, 0>>, <<0, 0, 0, 0>> >>

\* The results editor's state as one record, at the start of a handler.
Re == [restoredImage |-> restoredImage, imgComplete |-> imgComplete,
       adjustments |-> adjustments,
       originalCanvasImageData |-> originalCanvasImageData,
       imageCanvas |-> imageCanvas, editPanelHidden |-> editPanelHidden,
       reThrown |-> FALSE, stages |-> <<>>, download |-> <<>>]

\* imgElement.clientWidth is 0 while the image has not loaded and while the
\* element is not displayed (openEditPanel: imgElement.style.display = 'none').
ImgDisplayed(s) == s.imgComplete /\ s.editPanelHidden

\* With a zero display size the canvas gets size 0, nothing is drawn, and
\* getImageData(0, 0, 0, 0) throws IndexSizeError before the assignment.
initializeCanvas(s) ==
    IF ~ImgDisplayed(s)
    THEN [s EXCEPT !.imageCanvas = <<>>, !.reThrown = TRUE]
    ELSE [s EXCEPT !.imageCanvas = s.restoredImage,
                   !.originalCanvasImageData = << ctxGetImageData(s.restoredImage) >>]

resetToOriginal(s) ==
    IF s.originalCanvasImageData # <<>>
    THEN [s EXCEPT !.imageCanvas = ctxPutImageData(s.originalCanvasImageData[1])]
    ELSE IF s.imgComplete /\ Len(s.imageCanvas) > 0
         THEN [s EXCEPT !.imageCanvas = s.restoredImage]
         ELSE s

openEditPanel(s) ==
    LET s1 == IF s.originalCanvasImageData = <<>> THEN initializeCanvas(s) ELSE s
    IN  IF s1.reThrown THEN s1 ELSE [s1 EXCEPT !.editPanelHidden = FALSE]

closeEditPanel(s) == resetToOriginal([s EXCEPT !.editPanelHidden = TRUE])

toggleEditPanel(s) == IF s.editPanelHidden THEN openEditPanel(s) ELSE closeEditPanel(s)

\* Mutant of updateImage: the adjustments are applied to the data of the
\* original buffer itself, which is then shown.
updateImageInPlace(s) ==
    IF Len(s.imageCanvas) = 0 \/ s.originalCanvasImageData = <<>> THEN s
    ELSE CHOOSE r \in { [s EXCEPT !.imageCanvas = ctxPutImageData(log[5].output),
                                  !.originalCanvasImageData = << log[5].output >>,
                                  !.stages = log] :
                         log \in {applyAllAdjustments(s.originalCanvasImageData[1],
                                                      s.adjustments)} } : TRUE

\* Mutant of updateImage: the original is not put back first.
updateImageCumulative(s) ==
    IF Len(s.imageCanvas) = 0 THEN s
    ELSE CHOOSE r \in { [s EXCEPT !.imageCanvas = ctxPutImageData(log[5].output),
                                  !.stages = log] :
                         log \in {applyAllAdjustments(ctxGetImageData(s.imageCanvas),
                                                      s.adjustments)} } : TRUE

\* The canvas's size is not 0: the original, if captured, is put back; the
\* canvas's pixels are read, adjusted and put back.  (The set binds the run
\* of the pipeline, which is then computed once.)
updateImage(s) ==
    IF Len(s.imageCanvas) = 0 THEN s
    ELSE LET restored == IF s.originalCanvasImageData # <<>>
                         THEN ctxPutImageData(s.originalCanvasImageData[1])
                         ELSE s.imageCanvas
         IN  CHOOSE r \in { [s EXCEPT !.imageCanvas = ctxPutImageData(log[5].output),
                                      !.stages = log] :
                             log \in {applyAllAdjustments(ctxGetImageData(restored),
                                                          s.adjustments)} } : TRUE

\* this.adjustments[sliderId] = parseInt(e.target.value); this.updateImage()
sliderInput(s, sliderId, value) ==
    updateImage([s EXCEPT !.adjustments[sliderId] = value])

resetAdjustments(s) == resetToOriginal([s EXCEPT !.adjustments = NeutralAdjustments])

ReSet(s) ==
    /\ restoredImage' = s.restoredImage
    /\ imgComplete' = s.imgComplete
    /\ adjustments' = s.adjustments
    /\ originalCanvasImageData' = s.originalCanvasImageData
    /\ imageCanvas' = s.imageCanvas
    /\ editPanelHidden' = s.editPanelHidden
    /\ reThrown' = s.reThrown
    /\ stages' = s.stages
    /\ download' = s.download
    /\ UNCHANGED <<edVars, edHist, appVars, themeVars>>

\* the image's load event (preSetupCanvas registered the listener)
ImgLoad ==
    /\ ~imgComplete
    /\ \E s \in {initializeCanvas([Re EXCEPT !.imgComplete = TRUE])} :
           ReSet(s) /\ reEvent' = "load" /\ UNCHANGED adjusted

SliderInput(sliderId, value) ==
    \E s \in {sliderInput(Re, sliderId, value)} :
        /\ ReSet(s)
        /\ reEvent' = "input"
        /\ adjusted' = (adjusted \/ (/\ s.originalCanvasImageData # <<>>
                                     /\ s.imageCanvas # s.originalCanvasImageData[1]))

EditToggleClick ==
    \E s \in {toggleEditPanel(Re)} :
        ReSet(s) /\ reEvent' = "toggleEditPanel" /\ UNCHANGED adjusted

CloseEditClick ==
    /\ ~editPanelHidden
    /\ \E s \in {closeEditPanel(Re)} :
           ReSet(s) /\ reEvent' = "closeEditPanel" /\ UNCHANGED adjusted

ResetClick ==
    \E s \in {resetAdjustments(Re)} :
        ReSet(s) /\ reEvent' = "resetAdjustments" /\ UNCHANGED adjusted

\* With the panel open the canvas is encoded (canvas.toDataURL); with it closed
\* the link is the image element's src.  Nothing of the editor is assigned.
handleDownload(s) ==
    IF ~s.editPanelHidden
    THEN [s EXCEPT !.download = << [from |-> "canvas", pixels |-> s.imageCanvas] >>]
    ELSE [s EXCEPT !.download = << [from |-> "src", pixels |-> s.restoredImage] >>]

DownloadClick ==
    \E s \in {handleDownload(Re)} :
        ReSet(s) /\ reEvent' = "handleDownload" /\ UNCHANGED adjusted

NextAdjust ==
    \/ ImgLoad
    \/ \E i \in 1 .. Len(sliderIds) :
           \E value \in SliderValues[sliderIds[i]] : SliderInput(sliderIds[i], value)
    \/ EditToggleClick
    \/ CloseEditClick
    \/ ResetClick
    \/ DownloadClick

\* The state the constructor leaves: the canvas is set up at once when the
\* image is already complete, and by the load event otherwise.
ReSetup(img, complete) ==
    LET s == [restoredImage |-> img, imgComplete |-> complete,
              adjustments |-> NeutralAdjustments, originalCanvasImageData |-> <<>>,
              imageCanvas |-> BlankCanvas, editPanelHidden |-> TRUE,
              reThrown |-> FALSE, stages |-> <<>>, download |-> <<>>]
    IN  IF complete THEN initializeCanvas(s) ELSE s

ReInitWith(img, complete) ==
    /\ restoredImage = img
    /\ imgComplete = complete
    /\ adjustments = ReSetup(img, complete).adjustments
    /\ originalCanvasImageData = ReSetup(img, complete).originalCanvasImageData
    /\ imageCanvas = ReSetup(img, complete).imageCanvas
    /\ editPanelHidden = ReSetup(img, complete).editPanelHidden
    /\ reThrown = FALSE
    /\ reEvent = "constructor"
    /\ stages = <<>>
    /\ adjusted = FALSE
    /\ download = <<>>

ReInit == \E img \in RestoredImages, complete \in BOOLEAN : ReInitWith(img, complete)

\* the results page is not the one open
ReIdle == ReInitWith(<<>>, FALSE)

(***************************************************************************)
(* The single-page application (ImageRestorationApp): its mask drawing.    *)
(***************************************************************************)
\* longest stroke log of the application
AppMaxPoints == 2

\* The images a user may choose: img.width and img.height.  The first has the
\* minimum dimensions of the canvas, the second is smaller than them.
AppImage == [width |-> 300, height |-> 200]
SmallImage == [width |-> 100, height |-> 100]
\* 16 * 1024 * 1024
MaxFileSize == 16777216
\* The files a user may choose or drop: two that are accepted, one of them of
\* the largest size allowed, one of another type, and one a byte too large.
AppFiles ==
    { [type |-> "image/jpeg", size |-> MaxFileSize, img |-> AppImage],
      [type |-> "image/png", size |-> 1000, img |-> SmallImage],
      [type |-> "image/gif", size |-> 1000, img |-> SmallImage],
      [type |-> "image/jpeg", size |-> MaxFileSize + 1, img |-> AppImage] }
\* canvasWrapper.clientWidth and clientHeight in the layouts the window takes.
AppContainers == { [clientWidth |-> 300, clientHeight |-> 240],
                   [clientWidth |-> 1200, clientHeight |-> 640] }
\* getBoundingClientRect() of the canvas; displayImage gives the wrapper, when
\* there is one, the canvas's size, so the wrapper's rectangle is the same.
AppRect == [left |-> 50, top |-> 50, width |-> 300, height |-> 200]
\* the position of the brush slider that a user sets: its maximum
BrushInputs == {100}

\* this.processingParams of the constructor
ProcessingParams ==
    [gamma |-> 1, inpainting_method |-> "telea", inpainting_radius |-> 3,
     brush_size |-> 20]

\* The application's state as one record, at the start of a handler.
\* displayWidth/displayHeight are the canvas's size (displayImage assigns
\* both together and nothing else assigns either); selectedFile and
\* originalWidth/originalHeight go with originalImage.
App == [hasWrapper |-> hasWrapper, isDrawing |-> appIsDrawing,
        brushSize |-> appBrushSize, lastX |-> appLastX, lastY |-> appLastY,
        maskData |-> appMaskData, canvasSize |-> appCanvasSize,
        maskCanvas |-> appMaskCanvas, storage |-> appStorage,
        originalImage |-> appOriginalImage, container |-> appContainer,
        resizeTimeout |-> resizeTimeout, section |-> appSection,
        display |-> appDisplay,
        loading |-> appLoading, reading |-> appReading, payload |-> <<>>,
        file |-> <<>>]

\* Without the wrapper element the function returns the offset from the
\* canvas's rectangle as it is; with it, the scaled and clamped position.
appGetCanvasPosition(e, cv, rect, wrapper) ==
    IF ~wrapper
    THEN [x |-> e.clientX - rect.left, y |-> e.clientY - rect.top]
    ELSE LET scaleX == cv.w \div rect.width
             scaleY == cv.h \div rect.height
             x == (e.clientX - rect.left) * scaleX
             y == (e.clientY - rect.top) * scaleY
         IN  [x |-> Max(0, Min(x, cv.w)), y |-> Max(0, Min(y, cv.h))]

appSaveToLocalStorage(s) ==
    [s EXCEPT !.storage = << [processingParams |-> ProcessingParams,
                              maskData |-> s.maskData,
                              brushSize |-> s.brushSize] >>]

appStartDrawing(s, e) ==
    LET pos == appGetCanvasPosition(e, s.canvasSize, AppRect, s.hasWrapper)
    IN  [s EXCEPT !.isDrawing = TRUE, !.lastX = pos.x, !.lastY = pos.y,
                  !.maskCanvas = drawPoint(s.maskCanvas, s.canvasSize, pos.x, pos.y,
                                           s.brushSize),
                  !.maskData = Append(s.maskData, pos)]

appDraw(s, e) ==
    IF ~s.isDrawing THEN s
    ELSE LET pos == appGetCanvasPosition(e, s.canvasSize, AppRect, s.hasWrapper)
         IN  [s EXCEPT !.maskCanvas = drawLine(s.maskCanvas, s.canvasSize, s.lastX,
                                               s.lastY, pos.x, pos.y, s.brushSize),
                       !.maskData = Append(s.maskData, pos),
                       !.lastX = pos.x, !.lastY = pos.y]

appStopDrawing(s) == appSaveToLocalStorage([s EXCEPT !.isDrawing = FALSE])

appClearMask(s) == appSaveToLocalStorage([s EXCEPT !.maskCanvas = {}, !.maskData = <<>>])

\* Mutant of undoLastStroke: the whole log goes, whatever its length.
undoLastStrokeAll(s) ==
    IF Len(s.maskData) = 0 THEN s
    ELSE appSaveToLocalStorage([s EXCEPT !.maskData = <<>>, !.maskCanvas = {}])

\* The last ten points go, or all of them when there are no more than ten;
\* what is left is stroked as one path.
undoLastStroke(s) ==
    IF Len(s.maskData) = 0 THEN s
    ELSE LET rest == IF Len(s.maskData) > 10
                     THEN SubSeq(s.maskData, 1, Len(s.maskData) - 10)
                     ELSE <<>>
         IN  appSaveToLocalStorage(
                 [s EXCEPT !.maskData = rest,
                           !.maskCanvas = redrawMask({}, s.canvasSize, rest,
                                                     s.brushSize)])

\* scale = Math.min(maxWidth / img.width, maxHeight / img.height) is the
\* fraction num / den.  An image larger than the room is scaled down with
\* Math.floor; the canvas is at least 300 x 200; setting its size clears it;
\* the log is emptied; brushSize = Math.max(10, 20 * scale), a whole number
\* for the images and containers of the model.
displayImage(s, img) ==
    LET maxWidth == Min(s.container.clientWidth, 1200)
        maxHeight == Min(s.container.clientHeight - 40, 600)
        byWidth == maxWidth * img.height <= maxHeight * img.width
        num == IF byWidth THEN maxWidth ELSE maxHeight
        den == IF byWidth THEN img.width ELSE img.height
        width == IF num < den THEN (img.width * num) \div den ELSE img.width
        height == IF num < den THEN (img.height * num) \div den ELSE img.height
    IN  [s EXCEPT !.canvasSize = [w |-> Max(width, 300), h |-> Max(height, 200)],
                  !.maskCanvas = {},
                  !.maskData = <<>>,
                  !.brushSize = Max(10, (20 * num) \div den)]

\* Mutant of handleFileSelect: the size is not tested.
handleFileSelectAnySize(s, file) ==
    IF file.type \notin {"image/jpeg", "image/png", "image/bmp", "image/tiff"}
    THEN [s EXCEPT !.file = << file >>]
    ELSE [s EXCEPT !.file = << file >>, !.loading = TRUE, !.reading = << file >>]

\* A file of another type or of more than 16 MB is refused with an alert;
\* otherwise the overlay is shown and the FileReader started.
handleFileSelect(s, file) ==
    IF file.type \notin {"image/jpeg", "image/png", "image/bmp", "image/tiff"}
    THEN [s EXCEPT !.file = << file >>]
    ELSE IF file.size > MaxFileSize
    THEN [s EXCEPT !.file = << file >>]
    ELSE [s EXCEPT !.file = << file >>, !.loading = TRUE, !.reading = << file >>]

\* switchToEditor: the processing section's display is not assigned
switchToEditor(s) ==
    [s EXCEPT !.section = "editor",
              !.display = [@ EXCEPT !.upload = "none", !.editor = "block",
                                    !.results = "none"]]

\* displayResults: the processing section makes way for the results
displayResults(s) ==
    [s EXCEPT !.section = "results",
              !.display = [@ EXCEPT !.processing = "none", !.results = "block"]]

\* reader.onload, img.onload: the image is shown, the editor opened and the
\* overlay hidden.
imageLoaded(s) ==
    LET img == s.reading[1].img
    IN  [switchToEditor(displayImage([s EXCEPT !.originalImage = << img >>], img))
            EXCEPT !.loading = FALSE, !.reading = <<>>]

\* The window's resize listener and the ResizeObserver's callback: with an
\* image, the one timer is cleared and set again.
appResize(s, c) ==
    IF s.originalImage = <<>> THEN [s EXCEPT !.container = c]
    ELSE [s EXCEPT !.container = c, !.resizeTimeout = "pending"]

\* The timer's callback, 250 ms after the last setTimeout: displayImage, then
\* redrawMask.  Without an image (resetApp ran meanwhile) reading img.width
\* throws and nothing is assigned.
resizeTimeoutFired(s) ==
    IF s.originalImage = <<>> THEN [s EXCEPT !.resizeTimeout = "null"]
    ELSE LET s1 == displayImage(s, s.originalImage[1])
         IN  [s1 EXCEPT !.maskCanvas = redrawMask(s1.maskCanvas, s1.canvasSize,
                                                  s1.maskData, s1.brushSize),
                        !.resizeTimeout = "null"]

\* this.brushSize = parseInt(e.target.value); saveToLocalStorage()
appBrushInput(s, value) == appSaveToLocalStorage([s EXCEPT !.brushSize = value])

\* The form sent to /process: the file, mask_data when the log is not empty,
\* and the parameters.
appProcessImage(s) ==
    IF s.originalImage = <<>> THEN s
    ELSE [s EXCEPT
            !.section = "processing",
            !.loading = TRUE,
            !.display = [@ EXCEPT !.processing = "block", !.editor = "none"],
            !.payload = << [image |-> s.originalImage[1],
                            mask_data |->
                                IF Len(s.maskData) > 0
                                THEN << [coordinates |-> s.maskData,
                                         brush_size |-> s.brushSize,
                                         display_width |-> s.canvasSize.w,
                                         display_height |-> s.canvasSize.h,
                                         original_width |-> s.originalImage[1].width,
                                         original_height |-> s.originalImage[1].height] >>
                                ELSE <<>>,
                            parameters |-> [ProcessingParams EXCEPT
                                                !.brush_size = s.brushSize]] >>]

\* displayResults on success, switchToEditor in the catch clause on failure;
\* hideLoading in the finally clause
processResponse(s, success) ==
    [(IF success THEN displayResults(s) ELSE switchToEditor(s)) EXCEPT
        !.loading = FALSE]

resetApp(s) ==
    [s EXCEPT !.section = "upload",
              !.display = [@ EXCEPT !.upload = "block", !.editor = "none",
                                    !.results = "none"],
              !.originalImage = <<>>,
              !.maskCanvas = IF s.canvasSize.w # 0 /\ s.canvasSize.h # 0 THEN {} ELSE @,
              !.maskData = <<>>]

AppSet(s) ==
    /\ hasWrapper' = s.hasWrapper
    /\ appIsDrawing' = s.isDrawing
    /\ appBrushSize' = s.brushSize
    /\ appLastX' = s.lastX
    /\ appLastY' = s.lastY
    /\ appMaskData' = s.maskData
    /\ appCanvasSize' = s.canvasSize
    /\ appMaskCanvas' = s.maskCanvas
    /\ appStorage' = s.storage
    /\ appOriginalImage' = s.originalImage
    /\ appContainer' = s.container
    /\ resizeTimeout' = s.resizeTimeout
    /\ appSection' = s.section
    /\ appDisplay' = s.display
    /\ appLoading' = s.loading
    /\ appReading' = s.reading
    /\ appPayload' = s.payload
    /\ appFile' = s.file
    /\ UNCHANGED <<edVars, edHist, reVars, themeVars>>

\* mousedown, touchstart on the image canvas
AppMouseDown(e) ==
    /\ appSection = "editor"
    /\ Len(appMaskData) < AppMaxPoints
    /\ \E s \in {appStartDrawing(App, e)} : AppSet(s) /\ appEvent' = "startDrawing"

\* mousemove, touchmove
AppMouseMove(e) ==
    /\ appSection = "editor"
    /\ appIsDrawing => Len(appMaskData) < AppMaxPoints
    /\ \E s \in {appDraw(App, e)} : AppSet(s) /\ appEvent' = "draw"

\* mouseup, mouseleave, touchend
AppMouseUp ==
    /\ appSection = "editor"
    /\ \E s \in {appStopDrawing(App)} : AppSet(s) /\ appEvent' = "stopDrawing"

AppClearClick ==
    /\ appSection = "editor"
    /\ \E s \in {appClearMask(App)} : AppSet(s) /\ appEvent' = "clearMask"

AppUndoClick ==
    /\ appSection = "editor"
    /\ \E s \in {undoLastStroke(App)} : AppSet(s) /\ appEvent' = "undoLastStroke"

AppBrushInput(value) ==
    /\ appSection = "editor"
    /\ \E s \in {appBrushInput(App, value)} : AppSet(s) /\ appEvent' = "brushInput"

\* the window's resize event; the wrapper may or may not change its size
AppWindowResize(c) ==
    \E s \in {appResize(App, c)} : AppSet(s) /\ appEvent' = "resize"

\* the ResizeObserver's callback: the wrapper has changed its size
AppObserverResize(c) ==
    /\ c # appContainer
    /\ \E s \in {appResize(App, c)} : AppSet(s) /\ appEvent' = "resizeObserver"

AppResizeTimeout ==
    /\ resizeTimeout = "pending"
    /\ \E s \in {resizeTimeoutFired(App)} : AppSet(s) /\ appEvent' = "resizeTimeout"

AppProcessClick ==
    /\ appSection = "editor"
    /\ \E s \in {appProcessImage(App)} : AppSet(s) /\ appEvent' = "processImage"

AppProcessResponse(success) ==
    /\ appSection = "processing"
    /\ \E s \in {processResponse(App, success)} :
           AppSet(s) /\ appEvent' = "processResponse"

\* the New Image button
AppNewImageClick ==
    /\ appSection \in {"editor", "results"}
    /\ \E s \in {resetApp(App)} : AppSet(s) /\ appEvent' = "resetApp"

\* a file is chosen or dropped in the upload area
AppFileSelect(file) ==
    /\ appSection = "upload"
    /\ ~appLoading
    /\ \E s \in {handleFileSelect(App, file)} : AppSet(s) /\ appEvent' = "handleFileSelect"

\* the file has been read and its image decoded
AppFileLoad ==
    /\ appReading # <<>>
    /\ appReading[1].img.width # 0
    /\ \E s \in {imageLoaded(App)} : AppSet(s) /\ appEvent' = "imageLoaded"

\* a file with an image's name and type whose content is no image
BrokenFile == [type |-> "image/png", size |-> 1000, img |-> [width |-> 0, height |-> 0]]

\* reader.onerror: the overlay is hidden and an alert shown
readerError(s) == [s EXCEPT !.loading = FALSE, !.reading = <<>>]

\* The image's error event: img has no onerror handler, so nothing runs.
imageError(s) == [s EXCEPT !.reading = <<>>]

\* the FileReader fails to read the file
AppFileReadError ==
    /\ appReading # <<>>
    /\ \E s \in {readerError(App)} : AppSet(s) /\ appEvent' = "readerError"

\* the file has been read and its content cannot be decoded
AppImageError ==
    /\ appReading # <<>>
    /\ appReading[1].img.width = 0
    /\ \E s \in {imageError(App)} : AppSet(s) /\ appEvent' = "imageError"

\* The application from the choice of a file to the server's answer.
NextAppLoad ==
    \/ \E file \in AppFiles \cup {BrokenFile} : AppFileSelect(file)
    \/ AppFileLoad
    \/ AppFileReadError
    \/ AppImageError
    \/ \E e \in PointerEvents : AppMouseDown(e)
    \/ \E e \in PointerEvents : AppMouseMove(e)
    \/ AppMouseUp
    \/ AppProcessClick
    \/ \E success \in BOOLEAN : AppProcessResponse(success)
    \/ AppNewImageClick

\* The constructor's fields, before loadFromLocalStorage.
AppConstructed(wrapper, c) ==
    [hasWrapper |-> wrapper, isDrawing |-> FALSE, brushSize |-> 20,
     lastX |-> 0, lastY |-> 0, maskData |-> <<>>, canvasSize |-> [w |-> 0, h |-> 0],
     maskCanvas |-> {}, storage |-> <<>>, originalImage |-> <<>>,
     container |-> c,
     resizeTimeout |-> "null", section |-> "upload",
     display |-> [upload |-> "", editor |-> "", processing |-> "", results |-> ""],
     loading |-> FALSE,
     reading |-> <<>>, payload |-> <<>>, file |-> <<>>]

\* the constructor's last call: maskData and brushSize of the saved record
appLoadFromLocalStorage(s) ==
    IF s.storage = <<>> THEN s
    ELSE [s EXCEPT !.maskData = s.storage[1].maskData,
                   !.brushSize = s.storage[1].brushSize]

\* the page is loaded again: a new application object over the same storage
AppPageLoad ==
    \E s \in {appLoadFromLocalStorage(
                  [AppConstructed(hasWrapper, appContainer) EXCEPT
                       !.storage = appStorage])} :
        AppSet(s) /\ appEvent' = "constructor"

NextApp ==
    \/ \E e \in PointerEvents : AppMouseDown(e)
    \/ \E e \in PointerEvents : AppMouseMove(e)
    \/ AppMouseUp
    \/ AppClearClick
    \/ AppUndoClick
    \/ \E value \in BrushInputs : AppBrushInput(value)
    \/ AppProcessClick
    \/ \E success \in BOOLEAN : AppProcessResponse(success)
    \/ AppNewImageClick
    \/ \E file \in AppFiles : AppFileSelect(file)
    \/ AppFileLoad
    \/ AppPageLoad

\* longest stroke log of the application while long strokes are undone
LongLog == 11

\* Strokes of ten points, which undoLastStroke takes a stroke to have: a
\* stroke starts on a log of whole strokes, anywhere, and is dragged to one
\* place.
AppLongMouseDown(e) ==
    /\ appSection = "editor"
    /\ Len(appMaskData) < LongLog
    /\ Len(appMaskData) % 10 = 0
    /\ \E s \in {appStartDrawing(App, e)} : AppSet(s) /\ appEvent' = "startDrawing"

AppLongMouseMove(e) ==
    /\ appSection = "editor"
    /\ appIsDrawing => Len(appMaskData) < LongLog
    /\ \E s \in {appDraw(App, e)} : AppSet(s) /\ appEvent' = "draw"

\* The application while long strokes are drawn and undone.
NextAppUndo ==
    \/ \E file \in {f \in AppFiles : f.img = AppImage} : AppFileSelect(file)
    \/ AppFileLoad
    \/ \E e \in PointerEvents : AppLongMouseDown(e)
    \/ \E e \in {[clientX |-> 500, clientY |-> 10]} : AppLongMouseMove(e)
    \/ AppMouseUp
    \/ AppUndoClick

\* The application while its window changes size.
NextAppResize ==
    \/ \E file \in AppFiles : AppFileSelect(file)
    \/ AppFileLoad
    \/ \E e \in PointerEvents : AppMouseDown(e)
    \/ \E e \in PointerEvents : AppMouseMove(e)
    \/ AppMouseUp
    \/ \E c \in AppContainers : AppWindowResize(c)
    \/ \E c \in AppContainers : AppObserverResize(c)
    \/ AppResizeTimeout
    \/ AppNewImageClick

AppInitAs(s) ==
    /\ hasWrapper = s.hasWrapper
    /\ appIsDrawing = s.isDrawing
    /\ appBrushSize = s.brushSize
    /\ appLastX = s.lastX
    /\ appLastY = s.lastY
    /\ appMaskData = s.maskData
    /\ appCanvasSize = s.canvasSize
    /\ appMaskCanvas = s.maskCanvas
    /\ appStorage = s.storage
    /\ appOriginalImage = s.originalImage
    /\ appContainer = s.container
    /\ resizeTimeout = s.resizeTimeout
    /\ appSection = s.section
    /\ appDisplay = s.display
    /\ appLoading = s.loading
    /\ appReading = s.reading
    /\ appPayload = s.payload
    /\ appFile = s.file

\* The page has been loaded, with or without the wrapper element, in a
\* window of either size.
AppInit ==
    \E wrapper \in BOOLEAN, c \in AppContainers :
        AppInitAs(AppConstructed(wrapper, c)) /\ appEvent = "constructor"

\* the application's page is not the one open
AppIdle ==
    AppInitAs(AppConstructed(TRUE, [clientWidth |-> 300, clientHeight |-> 240]))
        /\ appEvent = "constructor"

(***************************************************************************)
(* The three pages.  Each specification runs one of them; the variables of *)
(* the other two keep their idle values.                                   *)
(***************************************************************************)
\* the mask editor's page before its image is chosen
EdIdle ==
    /\ originalImage = "null"
    /\ isDrawing = FALSE
    /\ brushSize = DefaultBrushSize
    /\ lastX = 0
    /\ lastY = 0
    /\ maskData = 1
    /\ heap = << <<>> >>
    /\ undoStack = <<>>
    /\ redoStack = <<>>
    /\ strokeCount = 0
    /\ canvasSize = [w |-> 0, h |-> 0]
    /\ container = WideContainer
    /\ maskCanvas = {}
    /\ localStorage = <<>>
    /\ thrown = FALSE
    /\ scale = Fraction(1, 1)
    /\ offsetX = Fraction(0, 1)
    /\ offsetY = Fraction(0, 1)
    /\ isPanning = FALSE
    /\ lastPanX = 0
    /\ lastPanY = 0
    /\ lastEvent = "constructor"
    /\ edits = 0
    /\ timeline = << [maskCanvas |-> {}, maskData |-> <<>>, strokeCount |-> 0] >>
    /\ cursor = 1
    /\ lowest = 1
    /\ edPayload = <<>>

(***************************************************************************)
(* The theme manager (theme.js).  Its timers are kept in the order they     *)
(* were set; a timer runs before every timer set later with a delay that    *)
(* is not shorter.                                                          *)
(***************************************************************************)
\* most activations of the toggle in one run
MaxActivations == 3

ApplyDelay == 50
InitDelay == 100
ButtonDelay == 150

Th == [currentTheme |-> currentTheme, storage |-> themeStorage,
       bodyClasses |-> bodyClasses, buttonText |-> buttonText,
       timers |-> themeTimers]

\* what localStorage.getItem('theme') may return when the page loads
StoredThemes == {<<>>, <<"light">>, <<"dark">>}

\* constructor: reads the stored theme and calls init, which sets a timer
ThemeConstructed(stored) ==
    [currentTheme |-> IF stored = <<>> THEN "light" ELSE stored[1],
     storage |-> stored,
     bodyClasses |-> {},
     buttonText |-> <<>>,
     timers |-> << [kind |-> "init", delay |-> InitDelay, theme |-> "null"] >>]

\* updateButton: the branch is chosen now, the text is set by a timer
updateButton(s) ==
    [s EXCEPT !.timers = Append(@, [kind |-> "button", delay |-> ButtonDelay,
                                    theme |-> s.currentTheme])]

applyTheme(s, theme) ==
    updateButton([s EXCEPT
        !.bodyClasses = (@ \ {"light-mode", "dark-mode"}) \cup {theme \o "-mode"},
        !.storage = <<theme>>,
        !.currentTheme = theme])

\* toggleTheme: the new theme is computed now and applied by a timer
toggleTheme(s) ==
    LET newTheme == IF s.currentTheme = "light" THEN "dark" ELSE "light"
    IN  [s EXCEPT !.bodyClasses = @ \cup {"theme-transitioning"},
                  !.timers = Append(@, [kind |-> "apply", delay |-> ApplyDelay,
                                        theme |-> newTheme])]

\* keydown on the toggle: Enter and the space bar toggle
themeKeyDown(s, key) ==
    IF key \in {"Enter", " "} THEN toggleTheme(s) ELSE s

RemoveAt(seq, i) == SubSeq(seq, 1, i - 1) \o SubSeq(seq, i + 1, Len(seq))

\* the timers that may run next
Due == { i \in 1..Len(themeTimers) :
            \A j \in 1..(i - 1) : themeTimers[j].delay > themeTimers[i].delay }

\* the callback of the timer at position i
themeTimerFired(s, i) ==
    LET timer == s.timers[i]
        rest == [s EXCEPT !.timers = RemoveAt(@, i)]
    IN  CASE timer.kind = "init" -> applyTheme(rest, rest.currentTheme)
          [] timer.kind = "apply" ->
                [applyTheme(rest, timer.theme) EXCEPT
                    !.bodyClasses = @ \ {"theme-transitioning"}]
          [] timer.kind = "button" ->
                [rest EXCEPT !.buttonText =
                    IF timer.theme = "dark" THEN <<"Light Mode">> ELSE <<"Dark Mode">>]

ThemeSet(s) ==
    /\ currentTheme' = s.currentTheme
    /\ themeStorage' = s.storage
    /\ bodyClasses' = s.bodyClasses
    /\ buttonText' = s.buttonText
    /\ themeTimers' = s.timers
    /\ UNCHANGED <<edVars, edHist, reVars, appVars, themeStart>>

ThemeInitAs(s) ==
    /\ currentTheme = s.currentTheme
    /\ themeStorage = s.storage
    /\ bodyClasses = s.bodyClasses
    /\ buttonText = s.buttonText
    /\ themeTimers = s.timers
    /\ themeStart = s.currentTheme
    /\ activations = 0
    /\ themeEvent = "constructor"

ThemeInit == \E stored \in StoredThemes : ThemeInitAs(ThemeConstructed(stored))

\* a page without the theme script
ThemeIdle ==
    /\ currentTheme = "light"
    /\ themeStorage = <<>>
    /\ bodyClasses = {}
    /\ buttonText = <<>>
    /\ themeTimers = <<>>
    /\ themeStart = "light"
    /\ activations = 0
    /\ themeEvent = "none"

ThemeClick ==
    /\ activations < MaxActivations
    /\ \E s \in {toggleTheme(Th)} : ThemeSet(s)
    /\ activations' = activations + 1
    /\ themeEvent' = "click"

ThemeKeyDown(key) ==
    /\ activations < MaxActivations
    /\ \E s \in {themeKeyDown(Th, key)} : ThemeSet(s)
    /\ activations' = IF key \in {"Enter", " "} THEN activations + 1 ELSE activations
    /\ themeEvent' = "keydown"

ThemeTimeout(i) ==
    /\ i \in Due
    /\ \E s \in {themeTimerFired(Th, i)} : ThemeSet(s)
    /\ UNCHANGED activations
    /\ themeEvent' = themeTimers[i].kind

NextTheme ==
    \/ ThemeClick
    \/ \E key \in {"Enter", " ", "Tab"} : ThemeKeyDown(key)
    \/ \E i \in 1..(2 * MaxActivations + 2) : ThemeTimeout(i)

Init == EdInit /\ ReIdle /\ AppIdle /\ ThemeIdle

Spec == Init /\ [][Next]_vars

SpecView == Init /\ [][NextView]_vars

SpecZoom == Init /\ [][NextZoom]_vars

InitRestore ==
    /\ \E saved \in StoredEntries \cup CorruptEntries : EdInitWith(saved)
    /\ ReIdle
    /\ AppIdle
    /\ ThemeIdle

SpecRestore == InitRestore /\ [][NextRestore]_vars

InitAdjust == EdIdle /\ ReInit /\ AppIdle /\ ThemeIdle

SpecAdjust == InitAdjust /\ [][NextAdjust]_vars

InitApp == EdIdle /\ ReIdle /\ AppInit /\ ThemeIdle

SpecApp == InitApp /\ [][NextApp]_vars

SpecAppResize == InitApp /\ [][NextAppResize]_vars

\* the application's page has loaded, in the smaller of the two windows
InitAppUndo ==
    /\ EdIdle
    /\ ReIdle
    /\ AppInitAs(AppConstructed(TRUE, [clientWidth |-> 300, clientHeight |-> 240]))
    /\ appEvent = "constructor"
    /\ ThemeIdle

SpecAppUndo == InitAppUndo /\ [][NextAppUndo]_vars

\* Either variant: the page open is the mask editor's or the application's.
InitPages == Init \/ InitApp

NextPages ==
    \/ originalImage = "img" /\ Next
    \/ originalImage = "null" /\ NextApp

SpecPages == InitPages /\ [][NextPages]_vars

\* The browser delivers the outcome of every read and decode it has started,
\* and every request is answered or fails.
SpecAppLoad ==
    /\ InitApp
    /\ [][NextAppLoad]_vars
    /\ WF_vars(AppFileLoad \/ AppFileReadError \/ AppImageError)
    /\ WF_vars(\E success \in BOOLEAN : AppProcessResponse(success))

InitTheme == EdIdle /\ ReIdle /\ AppIdle /\ ThemeInit

SpecTheme == InitTheme /\ [][NextTheme]_vars

(***************************************************************************)
(* Properties of the mask history manager.                                 *)
(***************************************************************************)

\* C1  History symmetry.  The timeline records the mask state (surface,
\* stroke log, strokeCount) before and after every edit of the current run of
\* complete edits; each undo must land on the state recorded one position
\* back and each redo on the state one position forward.  Hence N edits then N
\* undos give the state before the first edit, and N redos after them the
\* state after the Nth.
HistorySymmetry == Mask(Ed) = timeline[cursor]

\* Two edits, two undos back to the start, two redos to the end.
HistorySymmetryWitness ==
    /\ lastEvent = "redo"
    /\ Len(timeline) = 3
    /\ cursor = 3
    /\ lowest = 1
    /\ timeline[1] # timeline[3]

ForwardEdit ==
    \/ lastEvent' = "startDrawing"
    \/ lastEvent' = "clearMask" /\ Len(heap[maskData]) > 0

\* C2  Redo invalidation.  A stroke start or a confirmed clear of a non-empty
\* mask leaves redoStack empty; redoStack grows only by undo; and redo on the
\* empty redoStack changes nothing of the mask.
RedoInvalidation ==
    [][ /\ ForwardEdit => redoStack' = <<>>
        /\ Len(redoStack') > Len(redoStack) => lastEvent' = "undo"
        /\ (lastEvent' = "redo" /\ redoStack = <<>>) =>
               (Mask(Ed))' = Mask(Ed) /\ redoStack' = <<>> ]_vars

\* An edit, an undo, a new stroke, then redo: two edits were made, one
\* snapshot is left to undo, and the redo found nothing.
RedoInvalidationWitness ==
    /\ lastEvent = "redo"
    /\ edits = 2
    /\ Len(undoStack) = 1
    /\ redoStack = <<>>
    /\ ~isDrawing

\* C3  No history operation in mid-gesture: while isDrawing, undo and redo
\* neither restore nor capture a snapshot.
NoHistoryDuringStroke ==
    [][ (isDrawing /\ lastEvent' \in {"undo", "redo"}) =>
            /\ (View(Ed))' = View(Ed) ]_vars

\* C4  undo on the empty undoStack and redo on the empty redoStack change
\* nothing (surface, log, strokeCount, both stacks, the stored entry, the
\* gesture state) and do not throw.
EmptyStackNoOp ==
    [][ (\/ lastEvent' = "undo" /\ undoStack = <<>>
         \/ lastEvent' = "redo" /\ redoStack = <<>>) =>
            /\ (View(Ed))' = View(Ed)
            /\ heap' = heap
            /\ thrown' = FALSE ]_vars

\* undo was the last handler and nothing can be redone: it ran on the empty
\* stack (an undo that restores always leaves a snapshot to redo).
EmptyStackNoOpWitness ==
    /\ lastEvent = "undo"
    /\ undoStack = <<>>
    /\ redoStack = <<>>
    /\ Len(heap[maskData]) > 0

\* C5  Snapshots are owned values.  No two references of the editor (the live
\* log, the snapshots of both stacks) name the same array: there are as many
\* arrays referenced as there are references.  And a snapshot that
\* stays on its stack keeps its surface, its stroke sequence and its
\* strokeCount through every handler.
SnapshotsOwned ==
    [][ /\ Cardinality((Live(Ed))') = 1 + Len(undoStack') + Len(redoStack')
        /\ \A i \in 1 .. Min(Len(undoStack), Len(undoStack')) :
               Entry(heap', undoStack'[i]) = Entry(heap, undoStack[i])
        /\ \A i \in 1 .. Min(Len(redoStack), Len(redoStack')) :
               Entry(heap', redoStack'[i]) = Entry(heap, redoStack[i]) ]_vars

\* A stroke, an undo in mid-gesture, a move of the pointer: the live log is
\* the array of the popped snapshot and is appended to, while the snapshot on
\* redoStack holds its own copy.
SnapshotsOwnedWitness ==
    /\ Len(redoStack) > 0
    /\ lastEvent = "draw"
    /\ isDrawing

(***************************************************************************)
(* Properties of the viewport mapper.                                      *)
(***************************************************************************)
OnSurface(pos, cv) == 0 <= pos.x /\ pos.x <= cv.w /\ 0 <= pos.y /\ pos.y <= cv.h

\* C6  Coordinate clamping.  Every point of a stroke log, which is what
\* getCanvasPosition returned for some pointer event, lies in
\* [0, canvas.width] x [0, canvas.height]: in the mask editor and in the
\* single-page application.
CoordinateClamping ==
    /\ \A i \in 1 .. Len(heap[maskData]) : OnSurface(heap[maskData][i], canvasSize)
    /\ \A i \in 1 .. Len(appMaskData) : OnSurface(appMaskData[i], appCanvasSize)

\* The half of C6 that is about the mask editor, whose function has one path.
EditorCoordinateClamping ==
    \A i \in 1 .. Len(heap[maskData]) : OnSurface(heap[maskData][i], canvasSize)

(***************************************************************************)
(* Properties of the pixel adjustment pipeline.                            *)
(***************************************************************************)
\* The buffer the canvas shows for `original` under the adjustments adj.
Pipeline(original, adj) == ctxPutImageData(applyAllAdjustments(original, adj)[5].output)

\* C7  The displayed buffer is recomputed from the original.  After every
\* slider input, once the original buffer is captured, the canvas equals the
\* pipeline applied to the original buffer with the current adjustments,
\* whatever the canvas showed before; at neutral adjustments that is the
\* original buffer itself.
RecomputedFromOriginal ==
    (reEvent = "input" /\ originalCanvasImageData # <<>>) =>
        /\ imageCanvas = Pipeline(originalCanvasImageData[1], adjustments)
        /\ adjustments = NeutralAdjustments => imageCanvas = originalCanvasImageData[1]

\* A slider was moved away, the canvas showed other pixels, and the sliders
\* are back at neutral: the canvas shows the original again.
RecomputedFromOriginalWitness ==
    /\ reEvent = "input"
    /\ adjusted
    /\ adjustments = NeutralAdjustments
    /\ originalCanvasImageData # <<>>
    /\ imageCanvas = originalCanvasImageData[1]

\* C8  Round-trip neutrality.  With the five adjustments at 0 the pipeline
\* gives back its input, every pixel and every channel: for the image shown,
\* and in the run of the pipeline that a slider input at neutral made.
RoundTripNeutrality ==
    /\ restoredImage # <<>> =>
           applyAllAdjustments(restoredImage, NeutralAdjustments)[5].output = restoredImage
    /\ (reEvent = "input" /\ adjustments = NeutralAdjustments /\ stages # <<>>) =>
           /\ stages[5].output = stages[1].input
           /\ originalCanvasImageData # <<>> => imageCanvas = originalCanvasImageData[1]

\* The pipeline ran at neutral on an image with a coloured pixel.
RoundTripNeutralityWitness ==
    /\ reEvent = "input"
    /\ adjustments = NeutralAdjustments
    /\ stages # <<>>
    /\ \A i \in 1 .. Len(stages) : stages[i].skipped
    /\ \E p \in 1 .. Len(imageCanvas) : imageCanvas[p][1] # imageCanvas[p][2]

InByteRange(v) == 0 <= v.n /\ v.n <= 255 * v.d

\* every value a stage passed to its store, and every byte it left
StageInRange(st) ==
    /\ \A p \in 1 .. Len(st.written) : \A c \in 1 .. 3 : InByteRange(st.written[p][c])
    /\ \A p \in 1 .. Len(st.output) : \A c \in 1 .. 3 : st.output[p][c] \in 0 .. 255

\* the grey pixels of every level
GreyLevels == [v \in 1 .. 256 |-> <<v - 1, v - 1, v - 1, 255>>]

\* C9  Clamping.  Every value written by every stage of the last run of the
\* pipeline lies in [0, 255], and so does every channel of the canvas; and
\* under the current adjustments, the extremes included, the same holds for
\* the pipeline run on a pixel of every channel value 0..255.
ChannelsClamped ==
    /\ \A i \in 1 .. Len(stages) : StageInRange(stages[i])
    /\ \A p \in 1 .. Len(imageCanvas) : \A c \in 1 .. 3 : imageCanvas[p][c] \in 0 .. 255
    /\ reEvent = "input" =>
           \E run \in {applyAllAdjustments(GreyLevels, adjustments)} :
               \A i \in 1 .. Len(run) : StageInRange(run[i])

\* brightness = 100 and contrast = 100, and the brightness stage cut a value
\* down to 255.
ChannelsClampedWitness ==
    /\ reEvent = "input"
    /\ adjustments.brightness = 100
    /\ adjustments.contrast = 100
    /\ stages # <<>>
    /\ \E p \in 1 .. Len(stages[1].written) :
           /\ stages[1].input[p][1] > 0
           /\ stages[1].written[p][1] = Rat(255, 1)

\* C10  Fixed order.  Every run of the pipeline calls the five stages in the
\* order brightness, contrast, temperature, saturation, enhancement, each once;
\* the first works on the original buffer and each later one on the bytes the
\* one before it stored; a stage is skipped exactly when its adjustment is 0;
\* and the canvas shows what the last stage left.
FixedOrder ==
    (reEvent = "input" /\ originalCanvasImageData # <<>>) =>
        /\ Len(stages) = Len(sliderIds)
        /\ \A i \in 1 .. Len(stages) :
               /\ stages[i].stage = sliderIds[i]
               /\ stages[i].skipped <=> adjustments[sliderIds[i]] = 0
               /\ stages[i].skipped => stages[i].output = stages[i].input
               /\ \A p \in 1 .. Len(stages[i].output) :
                      \A c \in 1 .. 3 : stages[i].output[p][c] \in 0 .. 255
        /\ stages[1].input = originalCanvasImageData[1]
        /\ \A i \in 2 .. Len(stages) : stages[i].input = stages[i - 1].output
        /\ imageCanvas = stages[Len(stages)].output

\* All five stages ran, none skipped, and each changed its buffer.
FixedOrderWitness ==
    /\ reEvent = "input"
    /\ originalCanvasImageData # <<>>
    /\ stages # <<>>
    /\ \A i \in 1 .. Len(stages) :
           ~stages[i].skipped /\ stages[i].output # stages[i].input

\* C11  The original buffer is captured once.  Once originalCanvasImageData
\* holds a buffer, no handler (slider input, resetAdjustments, the panel's
\* opening and closing, download, the image's load event) changes a pixel of
\* it or puts another buffer in its place; and what it holds is the pixels of
\* the image as first drawn.
OriginalImmutable ==
    [][ originalCanvasImageData # <<>> =>
            /\ originalCanvasImageData' = originalCanvasImageData
            /\ originalCanvasImageData' = << restoredImage >> ]_vars

\* Sliders were moved, the canvas shows adjusted pixels, the panel was opened
\* and an export made, and the original still holds the image's pixels.
OriginalImmutableWitness ==
    /\ reEvent = "handleDownload"
    /\ adjusted
    /\ ~editPanelHidden
    /\ originalCanvasImageData = << restoredImage >>
    /\ imageCanvas # restoredImage

(***************************************************************************)
(* Properties of the stroke log and its replay.                            *)
(***************************************************************************)
\* C12  Replay determinism.  In every state the mask surface, which the
\* gestures rasterized step by step (drawPoint at each press, drawLine at each
\* move), is the surface that redrawMask draws from the stroke log on a
\* cleared surface: the same marked pixels, none added and none lost.
ReplayDeterminism ==
    maskCanvas = redrawMask({}, canvasSize, heap[maskData], brushSize)

\* C13  A viewport resize replays the full stroke log.  When the resize
\* handler of the application has run (the timer's callback: displayImage,
\* then redrawMask), maskData holds the points it held before, in the same
\* order, and the surface shows what redrawMask draws from them.
ResizeReplaysLog ==
    [][ (appEvent' = "resizeTimeout" /\ appOriginalImage # <<>>) =>
            /\ appMaskData' = appMaskData
            /\ appMaskCanvas' = redrawMask({}, appCanvasSize', appMaskData,
                                           appBrushSize') ]_vars

\* C14  Points are rescaled on resize.  After the resize handler of the mask
\* editor has run, every point of maskData lies within
\* [0, width] x [0, height] of the surface as it now is.
PointsWithinResizedSurface ==
    [][ lastEvent' = "resize" =>
            \A i \in 1 .. Len(heap'[maskData']) :
                OnSurface(heap'[maskData'][i], canvasSize') ]_vars

\* C15  Clear-all takes effect only after confirmation.  A run of clearMask
\* in which the user has confirmed nothing leaves the mask surface, the log
\* and the persisted store as they were: in the mask editor when the dialog
\* is answered no, and in the application, whose clearMask opens no dialog.
ClearNeedsConfirmation ==
    [][ /\ lastEvent' = "clearMaskCancelled" =>
               UNCHANGED <<maskCanvas, heap, maskData, strokeCount, undoStack,
                           redoStack, localStorage>>
        /\ (appEvent' = "clearMask" /\ Len(appMaskData) > 0) =>
               UNCHANGED <<appMaskCanvas, appMaskData, appStorage>> ]_vars

\* C16  One gesture is one stroke.  The press adds exactly 1 to strokeCount
\* and appends its point to maskData; every move of the gesture appends its
\* point after those already there and leaves strokeCount; a move outside a
\* gesture and the release change neither.  So a press, k moves and a release
\* add 1 to strokeCount and k + 1 points, in the order of the events.
OneStrokePerGesture ==
    [][ /\ lastEvent' = "startDrawing" =>
               /\ strokeCount' = strokeCount + 1
               /\ heap'[maskData'] =
                      Append(heap[maskData], [x |-> lastX', y |-> lastY'])
        /\ lastEvent' = "draw" =>
               /\ strokeCount' = strokeCount
               /\ heap'[maskData'] =
                      IF isDrawing
                      THEN Append(heap[maskData], [x |-> lastX', y |-> lastY'])
                      ELSE heap[maskData]
        /\ lastEvent' = "stopDrawing" =>
               /\ strokeCount' = strokeCount
               /\ heap'[maskData'] = heap[maskData] ]_vars

\* On an empty mask: a press at one corner, a move to the other, the release.
\* One stroke is counted, the log has the two points in the order of the
\* events, and the snapshot taken at the press is of the empty mask.
OneStrokePerGestureWitness ==
    /\ lastEvent = "stopDrawing"
    /\ ~isDrawing
    /\ strokeCount = 1
    /\ heap[maskData] = << [x |-> 0, y |-> 0], [x |-> 20, y |-> 10] >>
    /\ Len(undoStack) = 1
    /\ undoStack[1].strokeCount = 0
    /\ heap[undoStack[1].maskData] = <<>>

\* C17  Resize events are debounced.  A resize event recomputes nothing by
\* itself: the surface and its marks are as before the event, and (in the
\* application, with an image) the one timer is pending after it, whichever
\* of the two listeners ran.  The recomputation is the timer's callback, which
\* runs only while the timer is pending and leaves it not pending: once for
\* a burst of events, after the last of them.
ResizeDebounced ==
    [][ /\ lastEvent' = "resize" => UNCHANGED <<canvasSize, maskCanvas>>
        /\ appEvent' \in {"resize", "resizeObserver"} =>
               /\ UNCHANGED <<appCanvasSize, appMaskCanvas, appMaskData, appBrushSize>>
               /\ appOriginalImage # <<>> => resizeTimeout' = "pending"
        /\ appEvent' = "resizeTimeout" =>
               resizeTimeout = "pending" /\ resizeTimeout' = "null" ]_vars

(***************************************************************************)
(* Properties of what is sent and what is kept.                            *)
(***************************************************************************)
MaskFields == {"coordinates", "brush_size", "display_width", "display_height",
               "original_width", "original_height"}

\* C18  The mask payload is complete.  Whenever a form has been sent with a
\* mask, by the mask editor or by the application, its mask_data has the
\* stroke coordinates, the brush diameter, the display width and height and
\* the original image's width and height; and a form sent while the log was
\* not empty has a mask.
MaskPayloadComplete ==
    /\ edPayload # <<>> =>
           /\ Len(heap[maskData]) > 0 => edPayload[1].mask_data # <<>>
           /\ edPayload[1].mask_data # <<>> =>
                  /\ DOMAIN edPayload[1].mask_data[1] = MaskFields
                  /\ edPayload[1].mask_data[1].coordinates = heap[maskData]
    /\ appPayload # <<>> =>
           /\ Len(appMaskData) > 0 => appPayload[1].mask_data # <<>>
           /\ appPayload[1].mask_data # <<>> =>
                  /\ DOMAIN appPayload[1].mask_data[1] = MaskFields
                  /\ appPayload[1].mask_data[1].coordinates = appMaskData

\* C19  The brush diameter is bounded.  In every state brushSize is a whole
\* number from 5 to 100, in the mask editor and in the application: after
\* slider input, after the + and - keys, after displayImage and after the
\* constructor's restore from local storage.
BrushWithinBounds ==
    /\ brushSize \in 5 .. 100
    /\ appBrushSize \in 5 .. 100

\* C20  Image replacement destroys the mask state.  When the mask editor has
\* been constructed for the new image after a confirmed changeImage, and when
\* the application has shown a newly chosen file, maskData is empty, no mark
\* is on the surface and, in the editor, strokeCount is 0 and both history
\* stacks are empty.
MaskDestroyedOnReplacement ==
    [][ /\ lastEvent' = "changeImage" =>
               /\ heap'[maskData'] = <<>>
               /\ maskCanvas' = {}
               /\ strokeCount' = 0
               /\ undoStack' = <<>> /\ redoStack' = <<>>
        /\ appEvent' = "imageLoaded" =>
               appMaskData' = <<>> /\ appMaskCanvas' = {} ]_vars

(***************************************************************************)
(* Properties of the single stages of the pipeline.                        *)
(***************************************************************************)
\* clamp(factor * (channel - 128) + 128, 0, 255) with
\* factor = 259 * (contrast + 255) / (255 * (259 - contrast)), as a fraction
ContrastFormula(contrast, channel) ==
    LET num == 259 * (contrast + 255)
        den == 255 * (259 - contrast)
        v == Rat(num * (channel - 128) + 128 * den, den)
    IN  IF v.n < 0 THEN Rat(0, 1) ELSE IF v.n > 255 * v.d THEN Rat(255, 1) ELSE v

\* the byte is the whole number nearest to the fraction
Nearest(byte, v) ==
    /\ byte \in 0 .. 255
    /\ 2 * (byte * v.d - v.n) <= v.d
    /\ 2 * (v.n - byte * v.d) <= v.d

\* a run of the pipeline in which contrast alone is set follows the formula
ContrastRun(run, contrast) ==
    /\ \A i \in {1, 3, 4, 5} : run[i].skipped
    /\ run[5].output = run[2].output
    /\ \A p \in 1 .. Len(run[2].input) : \A c \in 1 .. 3 :
           /\ Nearest(run[2].output[p][c], ContrastFormula(contrast, run[2].input[p][c]))
           /\ ~run[2].skipped =>
                  run[2].written[p][c] = ContrastFormula(contrast, run[2].input[p][c])
    /\ \A p \in 1 .. Len(run[2].input) : run[2].output[p][4] = run[2].input[p][4]

\* C21  Contrast follows its formula.  With contrast alone set, the value each
\* R, G, B channel is written with is clamp(factor * (channel - 128) + 128,
\* 0, 255), factor = 259 * (contrast + 255) / (255 * (259 - contrast)), and
\* the byte the buffer then holds is the whole number nearest to it: in the
\* run that a slider input made on the image shown, and for every channel
\* value 0..255 under every contrast -100..100.  The pixel (200, 150, 100)
\* at contrast 50 is shown as (235, 161, 86).
ContrastMatchesFormula ==
    /\ (/\ reEvent = "input"
        /\ stages # <<>>
        /\ originalCanvasImageData # <<>>
        /\ adjustments = [NeutralAdjustments EXCEPT !.contrast = adjustments.contrast])
           => /\ ContrastRun(stages, adjustments.contrast)
              /\ stages[1].input = originalCanvasImageData[1]
              /\ imageCanvas = stages[5].output
    /\ reEvent = "constructor" =>
           \A contrast \in -100 .. 100 :
               \E run \in {applyAllAdjustments(
                               GreyLevels,
                               [NeutralAdjustments EXCEPT !.contrast = contrast])} :
                   ContrastRun(run, contrast)
    /\ (/\ reEvent = "input"
        /\ adjustments = [NeutralAdjustments EXCEPT !.contrast = 50]
        /\ originalCanvasImageData # <<>>
        /\ originalCanvasImageData[1][1] = <<200, 150, 100, 255>>)
           => imageCanvas[1] = <<235, 161, 86, 255>>

\* contrast = 50 alone on the image whose first pixel is (200, 150, 100)
ContrastMatchesFormulaWitness ==
    /\ reEvent = "input"
    /\ adjustments = [NeutralAdjustments EXCEPT !.contrast = 50]
    /\ originalCanvasImageData # <<>>
    /\ originalCanvasImageData[1][1] = <<200, 150, 100, 255>>
    /\ imageCanvas[1] = <<235, 161, 86, 255>>

(***************************************************************************)
(* Properties of the application's upload.                                 *)
(***************************************************************************)
\* C22  Only valid files are read.  handleFileSelect starts the read of a
\* file, and shows the overlay, exactly when its type is JPEG, PNG, BMP or
\* TIFF and its size is at most 16 MB; a file it refuses leaves the image,
\* the log, the canvases, the section shown and the overlay as they were and
\* starts no read.  So the file being read is always a valid one.
OnlyValidFilesRead ==
    [][ appEvent' = "handleFileSelect" =>
            \E file \in {appFile'[1]} :
                IF /\ file.type \in {"image/jpeg", "image/png", "image/bmp", "image/tiff"}
                   /\ file.size <= 16 * 1024 * 1024
                THEN /\ appReading' = << file >>
                     /\ appLoading'
                     /\ UNCHANGED <<appOriginalImage, appMaskData, appCanvasSize,
                                    appMaskCanvas, appSection>>
                ELSE /\ UNCHANGED <<appOriginalImage, appMaskData, appCanvasSize,
                                    appMaskCanvas, appSection, appLoading, appReading,
                                    appBrushSize, appStorage, resizeTimeout>>
                     /\ appReading' = <<>>
                     /\ ~appLoading' ]_vars

\* a JPEG of one byte more than 16 MB was chosen, and refused
OnlyValidFilesReadWitness ==
    /\ appEvent = "handleFileSelect"
    /\ appFile # <<>>
    /\ appFile[1].type = "image/jpeg"
    /\ appFile[1].size = 16 * 1024 * 1024 + 1
    /\ appReading = <<>>
    /\ ~appLoading
    /\ appSection = "upload"
    /\ appOriginalImage = <<>>

(***************************************************************************)
(* Properties of the snapshots taken by the mask editor's handlers.        *)
(***************************************************************************)
\* C23  Snapshot before mutation.  A stroke start, and a confirmed clear of a
\* non-empty mask, push exactly one snapshot onto undoStack, and that
\* snapshot holds the surface, the stroke log and strokeCount of the state
\* before the handler ran, so without the new stroke's first point; the
\* snapshots below it are kept.  draw and stopDrawing leave undoStack as it
\* was.
SnapshotBeforeMutation ==
    [][ /\ ForwardEdit =>
               /\ Len(undoStack') = Len(undoStack) + 1
               /\ Entry(heap', undoStack'[Len(undoStack')]) =
                      [imageData |-> [w |-> canvasSize.w, h |-> canvasSize.h,
                                      cells |-> maskCanvas],
                       maskData |-> heap[maskData],
                       strokeCount |-> strokeCount]
               /\ \A i \in 1 .. Len(undoStack) :
                      Entry(heap', undoStack'[i]) = Entry(heap, undoStack[i])
        /\ lastEvent' \in {"draw", "stopDrawing"} =>
               /\ Len(undoStack') = Len(undoStack)
               /\ \A i \in 1 .. Len(undoStack) :
                      Entry(heap', undoStack'[i]) = Entry(heap, undoStack[i]) ]_vars

\* a stroke was started on a marked surface: the snapshot on top of undoStack
\* has one point less than the log and a smaller strokeCount
SnapshotBeforeMutationWitness ==
    /\ lastEvent = "startDrawing"
    /\ Len(undoStack) > 0
    /\ Len(heap[undoStack[Len(undoStack)].maskData]) > 0
    /\ Len(heap[maskData]) = Len(heap[undoStack[Len(undoStack)].maskData]) + 1
    /\ strokeCount = undoStack[Len(undoStack)].strokeCount + 1
    /\ undoStack[Len(undoStack)].imageData.cells # maskCanvas

(***************************************************************************)
(* Properties of the mask editor's gestures.                               *)
(***************************************************************************)
\* C24  Cancellation.  When the pointer is released or leaves the surface
\* (mouseup, mouseleave, touchend) in a gesture, isDrawing becomes false and
\* the log, the brush size and strokeCount are written to local storage with
\* the mask itself untouched; from then on isDrawing stays false until a
\* press, and a move appends nothing and draws nothing.
StrokeEndOnCancellation ==
    [][ /\ (lastEvent' = "stopDrawing" /\ isDrawing) =>
               /\ ~isDrawing'
               /\ localStorage' = << [maskData |-> heap[maskData],
                                      brushSize |-> brushSize,
                                      strokeCount |-> strokeCount] >>
               /\ (Mask(Ed))' = Mask(Ed)
        /\ (~isDrawing /\ isDrawing') => lastEvent' = "startDrawing"
        /\ (lastEvent' = "draw" /\ ~isDrawing) =>
               /\ heap'[maskData'] = heap[maskData]
               /\ maskCanvas' = maskCanvas
               /\ ~isDrawing' ]_vars

\* a stroke of two points was ended and stored, and the pointer moved after it
StrokeEndOnCancellationWitness ==
    /\ lastEvent = "draw"
    /\ ~isDrawing
    /\ Len(undoStack) > 0
    /\ Len(heap[maskData]) = 2
    /\ localStorage # <<>>
    /\ localStorage[1].maskData = heap[maskData]
    /\ localStorage[1].strokeCount = strokeCount

\* C25  A move outside a gesture is a no-op.  When draw runs with isDrawing
\* false, the surface, the stroke log, strokeCount, lastX and lastY, both
\* history stacks and the stored entry are what they were, in the mask editor
\* and, for the fields it has, in the single-page application.
MoveWhileIdleIsNoOp ==
    [][ /\ (lastEvent' = "draw" /\ ~isDrawing) =>
               /\ UNCHANGED <<maskCanvas, maskData, heap, strokeCount, lastX, lastY,
                              undoStack, redoStack, localStorage, isDrawing>>
        /\ (appEvent' = "draw" /\ ~appIsDrawing) =>
               /\ UNCHANGED <<appMaskCanvas, appMaskData, appLastX, appLastY,
                              appStorage, appIsDrawing>> ]_vars

\* in the application a stroke was drawn and ended, and the pointer moved
\* over the canvas afterwards
MoveWhileIdleIsNoOpWitness ==
    /\ appEvent = "draw"
    /\ ~appIsDrawing
    /\ Len(appMaskData) > 0
    /\ appStorage # <<>>

(***************************************************************************)
(* Properties of zooming and panning in the mask editor.                   *)
(***************************************************************************)
\* C26  The zoom factor is clamped.  In every state in which the image is
\* loaded, and so after every Ctrl+wheel event has been handled,
\* 0.1 <= scale <= 3.
ScaleClamped ==
    originalImage = "img" => (scale.d <= 10 * scale.n /\ scale.n <= 3 * scale.d)

\* C27  The pan offsets are clamped.  In every state in which the image is
\* loaded, after pan events and after fitImageToCanvas has centred the
\* surface, -100 <= offsetX <= 100 and -100 <= offsetY <= 100.
OffsetsClamped ==
    originalImage = "img" =>
        /\ -100 * offsetX.d <= offsetX.n /\ offsetX.n <= 100 * offsetX.d
        /\ -100 * offsetY.d <= offsetY.n /\ offsetY.n <= 100 * offsetY.d

(***************************************************************************)
(* Properties of the restore from local storage.                           *)
(***************************************************************************)
\* C28  A missing or corrupt stored log is an empty mask.  When the page has
\* loaded (constructor with loadFromLocalStorage, then the image's load with
\* its replay) over a stored item that is absent, is not JSON, or whose
\* maskData holds something that is not a point, maskData is empty, the
\* surface is blank and no exception has escaped.
CorruptLogIsEmptyMask ==
    (/\ lastEvent \in {"constructor", "changeImage"}
     /\ \/ localStorage = <<>>
        \/ /\ localStorage # <<>>
           /\ "maskData" \notin DOMAIN localStorage[1]
        \/ /\ localStorage # <<>>
           /\ "maskData" \in DOMAIN localStorage[1]
           /\ \E i \in 1 .. Len(localStorage[1].maskData) :
                  DOMAIN localStorage[1].maskData[i] # {"x", "y"})
        => /\ heap[maskData] = <<>>
           /\ maskCanvas = {}
           /\ ~thrown

(***************************************************************************)
(* Properties of the size of the history.                                  *)
(***************************************************************************)
\* C29  The history stacks are bounded.  There is a cap on the lengths of
\* undoStack and redoStack that no number of strokes, clears, undos and redos
\* exceeds; here the cap is taken below the number of edits that a session
\* makes, so each stack stays shorter than that number.
HistoryStacksBounded ==
    /\ Len(undoStack) < MaxEdits
    /\ Len(redoStack) < MaxEdits

(***************************************************************************)
(* Properties of the application's undo.                                   *)
(***************************************************************************)
\* C30  undoLastStroke trims ten points.  Run on a log of L points it leaves
\* the first max(0, L - 10) of them in their order, blanks the surface and
\* strokes what is left as redrawMask does, and saves; on the empty log it
\* changes nothing, neither the surface nor the stored item.
UndoTrimsTenPoints ==
    [][ appEvent' = "undoLastStroke" =>
            IF Len(appMaskData) = 0
            THEN UNCHANGED <<appMaskData, appMaskCanvas, appStorage>>
            ELSE /\ Len(appMaskData') = Max(0, Len(appMaskData) - 10)
                 /\ \A i \in 1 .. Len(appMaskData') : appMaskData'[i] = appMaskData[i]
                 /\ appMaskCanvas' = redrawMask({}, appCanvasSize, appMaskData',
                                                appBrushSize)
                 /\ appStorage' # <<>>
                 /\ appStorage'[1].maskData = appMaskData' ]_vars

\* undo has run on a log of eleven points: one point is left
UndoTrimsTenPointsWitness ==
    /\ appEvent = "undoLastStroke"
    /\ Len(appMaskData) = 1
    /\ appStorage # <<>>
    /\ appStorage[1].maskData = appMaskData

(***************************************************************************)
(* Properties of the channels the pipeline writes.                         *)
(***************************************************************************)
\* pixels of one colour with alpha 0, 1, 128, 254 and 255
AlphaLevels ==
    << <<200, 150, 100, 0>>, <<200, 150, 100, 1>>, <<200, 150, 100, 128>>,
       <<200, 150, 100, 254>>, <<200, 150, 100, 255>> >>

\* C31  The alpha channel is untouched.  Whenever the original buffer is
\* captured, every pixel of the canvas has the alpha of the same pixel of the
\* original; every stage of the last run left each pixel's alpha as it found
\* it and wrote three values per pixel, for R, G and B; and the same holds
\* for the pipeline run, under every vector of slider values, on pixels of
\* alpha 0, 1, 128, 254 and 255.
AlphaUntouched ==
    /\ (originalCanvasImageData # <<>> /\ Len(imageCanvas) > 0) =>
           /\ Len(imageCanvas) = Len(originalCanvasImageData[1])
           /\ \A p \in 1 .. Len(imageCanvas) :
                  imageCanvas[p][4] = originalCanvasImageData[1][p][4]
    /\ \A k \in 1 .. Len(stages) :
           /\ \A p \in 1 .. Len(stages[k].output) :
                  stages[k].output[p][4] = stages[k].input[p][4]
           /\ \A p \in 1 .. Len(stages[k].written) : Len(stages[k].written[p]) = 3
    /\ reEvent = "constructor" =>
           \A b \in SliderValues.brightness, c \in SliderValues.contrast,
              t \in SliderValues.temperature, s \in SliderValues.saturation,
              e \in SliderValues.enhancement :
               \E run \in {applyAllAdjustments(
                               AlphaLevels,
                               [brightness |-> b, contrast |-> c, temperature |-> t,
                                saturation |-> s, enhancement |-> e])} :
                   \A p \in 1 .. Len(AlphaLevels) :
                       /\ \A k \in 1 .. Len(run) :
                              run[k].output[p][4] = AlphaLevels[p][4]
                       /\ ctxPutImageData(run[5].output)[p][4] = AlphaLevels[p][4]

\* every slider is off its neutral value, all five stages have written, and
\* the canvas shows other colours than the original's with the same alpha
AlphaUntouchedWitness ==
    /\ reEvent = "input"
    /\ originalCanvasImageData # <<>>
    /\ Len(stages) = 5
    /\ \A k \in 1 .. 5 : ~stages[k].skipped
    /\ imageCanvas # originalCanvasImageData[1]
    /\ \A p \in 1 .. Len(imageCanvas) :
           imageCanvas[p][4] = originalCanvasImageData[1][p][4]

\* clamp(channel + gain * 2.55 - loss * 1.275, 0, 255) as a fraction
TemperatureFormula(channel, gain, loss) ==
    LET v == Rat(1000 * channel + 2550 * gain - 1275 * loss, 1000)
    IN  IF v.n < 0 THEN Rat(0, 1) ELSE IF v.n > 255 * v.d THEN Rat(255, 1) ELSE v

\* a run of the pipeline in which temperature alone is set: red gains
\* temp * 2.55 and blue loses temp * 1.275 when temp > 0, red loses
\* |temp| * 1.275 and blue gains |temp| * 2.55 when temp < 0, green stays
TemperatureRun(run, temp) ==
    LET m == IF temp < 0 THEN -temp ELSE temp
        red(ch) == IF temp > 0 THEN TemperatureFormula(ch, m, 0)
                   ELSE TemperatureFormula(ch, 0, m)
        blue(ch) == IF temp > 0 THEN TemperatureFormula(ch, 0, m)
                    ELSE TemperatureFormula(ch, m, 0)
    IN  /\ \A i \in {1, 2, 4, 5} : run[i].skipped
        /\ run[3].skipped <=> temp = 0
        /\ run[5].output = run[3].output
        /\ \A p \in 1 .. Len(run[3].input) :
               /\ Nearest(run[3].output[p][1], red(run[3].input[p][1]))
               /\ run[3].output[p][2] = run[3].input[p][2]
               /\ Nearest(run[3].output[p][3], blue(run[3].input[p][3]))
               /\ run[3].output[p][4] = run[3].input[p][4]

\* C32  Temperature changes only R and B.  With temperature alone set, red
\* is written with clamp(R + temp * 2.55) and blue with clamp(B - temp * 1.275)
\* when temp > 0, red with clamp(R - |temp| * 1.275) and blue with
\* clamp(B + |temp| * 2.55) when temp < 0, the byte held being the whole
\* number nearest to it, and green is unchanged: in the run that a slider
\* input made on the image shown, and for every channel value 0..255 under
\* every temp -100..100.  The pixel (200, 150, 100) at temp 75 is shown as
\* (255, 150, 4).
TemperatureChangesRedAndBlue ==
    /\ (/\ reEvent = "input"
        /\ stages # <<>>
        /\ originalCanvasImageData # <<>>
        /\ adjustments = [NeutralAdjustments EXCEPT !.temperature = adjustments.temperature])
           => /\ TemperatureRun(stages, adjustments.temperature)
              /\ stages[1].input = originalCanvasImageData[1]
              /\ imageCanvas = stages[5].output
    /\ reEvent = "constructor" =>
           \A temp \in -100 .. 100 :
               \E run \in {applyAllAdjustments(
                               GreyLevels,
                               [NeutralAdjustments EXCEPT !.temperature = temp])} :
                   TemperatureRun(run, temp)
    /\ (/\ reEvent = "input"
        /\ adjustments = [NeutralAdjustments EXCEPT !.temperature = 75]
        /\ originalCanvasImageData # <<>>
        /\ originalCanvasImageData[1][1] = <<200, 150, 100, 255>>)
           => imageCanvas[1] = <<255, 150, 4, 255>>

\* temperature = 75 alone on the image whose first pixel is (200, 150, 100)
TemperatureChangesRedAndBlueWitness ==
    /\ reEvent = "input"
    /\ adjustments = [NeutralAdjustments EXCEPT !.temperature = 75]
    /\ originalCanvasImageData # <<>>
    /\ originalCanvasImageData[1][1] = <<200, 150, 100, 255>>
    /\ imageCanvas[1] = <<255, 150, 4, 255>>

(***************************************************************************)
(* Properties of the results editor's canvas and its sliders.              *)
(***************************************************************************)
\* C33  The canvas agrees with the adjustments.  Once a slider has been
\* moved over the captured original buffer, the canvas holds the pipeline's
\* result on the original buffer under the current adjustments after every
\* handler: after slider input, after resetAdjustments, and after the panel
\* is closed and opened again; and what handleDownload exports from the
\* canvas is that result.
CanvasMatchesAdjustments ==
    (originalCanvasImageData # <<>> /\ adjusted) =>
        \E run \in {applyAllAdjustments(originalCanvasImageData[1], adjustments)} :
            /\ imageCanvas = ctxPutImageData(run[5].output)
            /\ (download # <<>> /\ download[1].from = "canvas") =>
                   download[1].pixels = ctxPutImageData(run[5].output)

(***************************************************************************)
(* Properties of panning beside drawing.                                   *)
(***************************************************************************)
\* C34  Panning and drawing exclude each other.  A press of the middle or
\* the right button, which starts panning, starts no stroke: undoStack and
\* redoStack are as they were, no point is appended and strokeCount is
\* unchanged; and isDrawing and isPanning are never both true.
PanningExcludesDrawing ==
    /\ [][ lastEvent' = "startPanning" =>
               /\ UNCHANGED <<undoStack, redoStack, strokeCount, isDrawing>>
               /\ heap'[maskData'] = heap[maskData] ]_vars
    /\ [](~(isDrawing /\ isPanning))

(***************************************************************************)
(* Properties of the stroke counter.                                       *)
(***************************************************************************)
\* C35  strokeCount is consistent with the stroke log.  In every state of
\* the mask editor strokeCount is 0 exactly when maskData is empty, and
\* strokeCount is at most the number of points of maskData.
StrokeCountConsistent ==
    /\ strokeCount = 0 <=> Len(heap[maskData]) = 0
    /\ strokeCount <= Len(heap[maskData])

(***************************************************************************)
(* Properties of the application's timers and sections.                    *)
(***************************************************************************)
\* C36  The resize callback finds an image.  Whenever the callback of the
\* resize timer runs, originalImage is not null, so displayImage is not called
\* with null: also when resetApp ran after the resize event that set the
\* timer.
ResizeCallbackHasImage ==
    [][ appEvent' = "resizeTimeout" => appOriginalImage # <<>> ]_vars

\* the theme t after k flips
Flipped(t, k) ==
    IF k % 2 = 0 THEN t ELSE IF t = "light" THEN "dark" ELSE "light"

\* C37  Each activation of the toggle flips the theme once, whatever the
\* timing: from theme t, after k activations and with no timer left to run,
\* currentTheme and the stored 'theme' are t when k is even and the other
\* theme when k is odd.
ThemeFlipsPerActivation ==
    themeTimers = <<>> =>
        /\ currentTheme = Flipped(themeStart, activations)
        /\ themeStorage = <<Flipped(themeStart, activations)>>

\* The sections on view: those the script gave display 'block', and the
\* upload section while the script has not set its display.
Visible ==
    { sec \in {"upload", "editor", "processing", "results"} :
        appDisplay[sec] = "block" \/ (appDisplay[sec] = "" /\ sec = "upload") }

\* C38  At most one of the four sections (upload, editor, processing,
\* results) is visible once switchToEditor, processImage (on success or on
\* failure), displayResults or resetApp has completed.
OneSectionVisible ==
    [][ appEvent' \in {"imageLoaded", "processResponse", "resetApp"} =>
            Cardinality(Visible') <= 1 ]_vars

\* C39  Every showLoading is eventually followed by hideLoading: after
\* handleFileSelect accepts a file, and after processImage starts, the loading
\* overlay is eventually hidden, whether the file read, the image decode or
\* the server request succeeds or fails.
LoadingEventuallyHidden == appLoading ~> ~appLoading

====
